---------------------------- MODULE Spec2Model ----------------------------
(***************************************************************************)
(* A model of the fli query compiler (package querybuilder): the filter   *)
(* parser (filter_lexer.go), the versioned flow-log schema               *)
(* (vpc_flow_logs_schema.go), the expression renderer (expressions.go)    *)
(* and the option-driven query Builder.                                   *)
(*                                                                         *)
(* Go strings that the code scans (filter text) are sequences of          *)
(* one-character strings; Go strings that the code only compares or       *)
(* concatenates (field names, rendered clauses) are TLA+ strings.  Str    *)
(* converts the first form to the second.  Indexes are Go's (0-based).    *)
(***************************************************************************)
EXTENDS Integers, Sequences, FiniteSets, TLC

(***************************************************************************)
(* Bounds of the model.                                                    *)
(***************************************************************************)
MaxOpts == 3
MaxFields == 2
MaxAggs == 2
MaxTokens == 9
MaxDepth == 2
MaxKids == 2
MaxPolls == 3

(***************************************************************************)
(* Go string primitives (package strings) on character sequences.          *)
(***************************************************************************)
UpperChars == <<"A","B","C","D","E","F","G","H","I","J","K","L","M",
                "N","O","P","Q","R","S","T","U","V","W","X","Y","Z">>
LowerChars == <<"a","b","c","d","e","f","g","h","i","j","k","l","m",
                "n","o","p","q","r","s","t","u","v","w","x","y","z">>
DigitChars == <<"0","1","2","3","4","5","6","7","8","9">>

\* ASCII bytes ('A' <= c && c <= 'Z': c += 'a' - 'A')
ToLowerCh(c) ==
  IF \E i \in 1..26 : UpperChars[i] = c
    THEN LowerChars[CHOOSE i \in 1..26 : UpperChars[i] = c]
    ELSE c

\* a text lower-cased byte by byte, ASCII letters only
AsciiLower(s) == [i \in 1..Len(s) |-> ToLowerCh(s[i])]

(***************************************************************************)
(* Bytes and runes (packages unicode/utf8 and unicode).  A Go string is    *)
(* the sequence of its bytes.  A byte below RuneSelf is the one-character  *)
(* string of its ASCII character; a byte from 0x80 to 0xff is the string   *)
(* of four characters \xNN, NN its value in hexadecimal digits, so U+212A, *)
(* the bytes e2 84 aa, is << "\\xe2", "\\x84", "\\xaa" >>.  A rune at or   *)
(* above RuneSelf is its code point.                                       *)
(***************************************************************************)
RuneSelf == 128
RuneError == 65533

HexDigits == <<"0","1","2","3","4","5","6","7","8","9",
               "a","b","c","d","e","f">>

\* c >= utf8.RuneSelf
IsHigh(c) == Len(c) > 1

NibbleVal(h) == (CHOOSE i \in 1..16 : HexDigits[i] = h) - 1

\* the value of a byte at or above RuneSelf, and the byte of a value
ByteVal(c) == (16 * NibbleVal(SubSeq(c, 3, 3))) + NibbleVal(SubSeq(c, 4, 4))
ByteOf(v) == "\\x" \o HexDigits[(v \div 16) + 1] \o HexDigits[(v % 16) + 1]

IsASCII(s) == \A i \in 1..Len(s) : ~IsHigh(s[i])

\* the value of s[i] when it is a byte at or above RuneSelf, else -1 (i is
\* Go's index)
HighAt(s, i) == IF i < Len(s) /\ IsHigh(s[i + 1]) THEN ByteVal(s[i + 1]) ELSE -1

\* the rune that starts with the byte b0 >= RuneSelf, b1, b2 and b3 being
\* the bytes after it: the accept ranges of utf8 (no overlong form, no
\* surrogate, nothing above U+10FFFF); anything else is RuneError of width 1
DecodeMulti(b0, b1, b2, b3) ==
  IF b0 \in 194..223 /\ b1 \in 128..191
    THEN [r |-> ((b0 % 32) * 64) + (b1 % 64), size |-> 2]
  ELSE IF /\ b0 \in 224..239
          /\ b1 \in (IF b0 = 224 THEN 160 ELSE 128)..
                    (IF b0 = 237 THEN 159 ELSE 191)
          /\ b2 \in 128..191
    THEN [r |-> ((b0 % 16) * 4096) + ((b1 % 64) * 64) + (b2 % 64),
          size |-> 3]
  ELSE IF /\ b0 \in 240..244
          /\ b1 \in (IF b0 = 240 THEN 144 ELSE 128)..
                    (IF b0 = 244 THEN 143 ELSE 191)
          /\ b2 \in 128..191
          /\ b3 \in 128..191
    THEN [r |-> ((b0 % 8) * 262144) + ((b1 % 64) * 4096)
                + ((b2 % 64) * 64) + (b3 % 64),
          size |-> 4]
  ELSE [r |-> RuneError, size |-> 1]

\* utf8.DecodeRuneInString(s[i:]) where s[i] >= RuneSelf
DecodeRune(s, i) ==
  DecodeMulti(HighAt(s, i), HighAt(s, i + 1), HighAt(s, i + 2),
              HighAt(s, i + 3))

\* the step of 'for i := range s' at the byte index i
RuneSize(s, i) == IF IsHigh(s[i + 1]) THEN DecodeRune(s, i).size ELSE 1

\* utf8.RuneStart: not a continuation byte
RuneStart(c) == ~IsHigh(c) \/ ByteVal(c) \notin 128..191

\* the greatest element of a set of indexes, lim for the empty set
LastOf(starts, lim) ==
  IF starts = {} THEN lim ELSE CHOOSE k \in starts : \A j \in starts : j <= k

\* the index DecodeLastRuneInString decodes from: the nearest rune start
\* among the up to three bytes before the last one, else the limit
LastStartFrom(s, lim) ==
  LastOf({k \in lim..(Len(s) - 2) : RuneStart(s[k + 1])}, lim)

LastStart(s) == LastStartFrom(s, IF Len(s) > 4 THEN Len(s) - 4 ELSE 0)

\* the rune d decoded at the byte index start if it ends where s ends (an
\* ASCII byte at start is a rune of width 1, which does not)
LastRuneFrom(s, start, d) ==
  IF IsHigh(s[start + 1]) /\ start + d.size = Len(s) THEN d
  ELSE [r |-> RuneError, size |-> 1]

DecodeFrom(s, start) == LastRuneFrom(s, start, DecodeRune(s, start))

\* utf8.DecodeLastRuneInString(s) where the last byte is >= RuneSelf
DecodeLastRune(s) == DecodeFrom(s, LastStart(s))

\* utf8.EncodeRune for a rune at or above RuneSelf
EncodeRune(r) ==
  IF r < 2048 THEN <<ByteOf(192 + (r \div 64)), ByteOf(128 + (r % 64))>>
  ELSE IF r < 65536
    THEN <<ByteOf(224 + (r \div 4096)), ByteOf(128 + ((r \div 64) % 64)),
           ByteOf(128 + (r % 64))>>
  ELSE <<ByteOf(240 + (r \div 262144)), ByteOf(128 + ((r \div 4096) % 64)),
         ByteOf(128 + ((r \div 64) % 64)), ByteOf(128 + (r % 64))>>

\* the lower-case mapping of unicode.CaseRanges above ASCII (Unicode 15):
\* <<lo, hi, stride, delta>> maps lo, lo + stride, ... up to hi to itself
\* plus delta
LowerRanges ==
  <<
    <<192, 214, 1, 32>>, <<216, 222, 1, 32>>, <<256, 302, 2, 1>>,
    <<304, 304, 1, -199>>, <<306, 310, 2, 1>>, <<313, 327, 2, 1>>,
    <<330, 374, 2, 1>>, <<376, 376, 1, -121>>, <<377, 381, 2, 1>>,
    <<385, 385, 1, 210>>, <<386, 388, 2, 1>>, <<390, 390, 1, 206>>,
    <<391, 391, 1, 1>>, <<393, 394, 1, 205>>, <<395, 395, 1, 1>>,
    <<398, 398, 1, 79>>, <<399, 399, 1, 202>>, <<400, 400, 1, 203>>,
    <<401, 401, 1, 1>>, <<403, 403, 1, 205>>, <<404, 404, 1, 207>>,
    <<406, 406, 1, 211>>, <<407, 407, 1, 209>>, <<408, 408, 1, 1>>,
    <<412, 412, 1, 211>>, <<413, 413, 1, 213>>, <<415, 415, 1, 214>>,
    <<416, 420, 2, 1>>, <<422, 422, 1, 218>>, <<423, 423, 1, 1>>,
    <<425, 425, 1, 218>>, <<428, 428, 1, 1>>, <<430, 430, 1, 218>>,
    <<431, 431, 1, 1>>, <<433, 434, 1, 217>>, <<435, 437, 2, 1>>,
    <<439, 439, 1, 219>>, <<440, 440, 1, 1>>, <<444, 444, 1, 1>>,
    <<452, 452, 1, 2>>, <<453, 453, 1, 1>>, <<455, 455, 1, 2>>,
    <<456, 456, 1, 1>>, <<458, 458, 1, 2>>, <<459, 475, 2, 1>>,
    <<478, 494, 2, 1>>, <<497, 497, 1, 2>>, <<498, 500, 2, 1>>,
    <<502, 502, 1, -97>>, <<503, 503, 1, -56>>, <<504, 542, 2, 1>>,
    <<544, 544, 1, -130>>, <<546, 562, 2, 1>>, <<570, 570, 1, 10795>>,
    <<571, 571, 1, 1>>, <<573, 573, 1, -163>>, <<574, 574, 1, 10792>>,
    <<577, 577, 1, 1>>, <<579, 579, 1, -195>>, <<580, 580, 1, 69>>,
    <<581, 581, 1, 71>>, <<582, 590, 2, 1>>, <<880, 882, 2, 1>>,
    <<886, 886, 1, 1>>, <<895, 895, 1, 116>>, <<902, 902, 1, 38>>,
    <<904, 906, 1, 37>>, <<908, 908, 1, 64>>, <<910, 911, 1, 63>>,
    <<913, 929, 1, 32>>, <<931, 939, 1, 32>>, <<975, 975, 1, 8>>,
    <<984, 1006, 2, 1>>, <<1012, 1012, 1, -60>>, <<1015, 1015, 1, 1>>,
    <<1017, 1017, 1, -7>>, <<1018, 1018, 1, 1>>, <<1021, 1023, 1, -130>>,
    <<1024, 1039, 1, 80>>, <<1040, 1071, 1, 32>>, <<1120, 1152, 2, 1>>,
    <<1162, 1214, 2, 1>>, <<1216, 1216, 1, 15>>, <<1217, 1229, 2, 1>>,
    <<1232, 1326, 2, 1>>, <<1329, 1366, 1, 48>>, <<4256, 4293, 1, 7264>>,
    <<4295, 4295, 1, 7264>>, <<4301, 4301, 1, 7264>>, <<5024, 5103, 1, 38864>>,
    <<5104, 5109, 1, 8>>, <<7312, 7354, 1, -3008>>, <<7357, 7359, 1, -3008>>,
    <<7680, 7828, 2, 1>>, <<7838, 7838, 1, -7615>>, <<7840, 7934, 2, 1>>,
    <<7944, 7951, 1, -8>>, <<7960, 7965, 1, -8>>, <<7976, 7983, 1, -8>>,
    <<7992, 7999, 1, -8>>, <<8008, 8013, 1, -8>>, <<8025, 8031, 2, -8>>,
    <<8040, 8047, 1, -8>>, <<8072, 8079, 1, -8>>, <<8088, 8095, 1, -8>>,
    <<8104, 8111, 1, -8>>, <<8120, 8121, 1, -8>>, <<8122, 8123, 1, -74>>,
    <<8124, 8124, 1, -9>>, <<8136, 8139, 1, -86>>, <<8140, 8140, 1, -9>>,
    <<8152, 8153, 1, -8>>, <<8154, 8155, 1, -100>>, <<8168, 8169, 1, -8>>,
    <<8170, 8171, 1, -112>>, <<8172, 8172, 1, -7>>, <<8184, 8185, 1, -128>>,
    <<8186, 8187, 1, -126>>, <<8188, 8188, 1, -9>>, <<8486, 8486, 1, -7517>>,
    <<8490, 8490, 1, -8383>>, <<8491, 8491, 1, -8262>>, <<8498, 8498, 1, 28>>,
    <<8544, 8559, 1, 16>>, <<8579, 8579, 1, 1>>, <<9398, 9423, 1, 26>>,
    <<11264, 11311, 1, 48>>, <<11360, 11360, 1, 1>>, <<11362, 11362, 1, -10743>>,
    <<11363, 11363, 1, -3814>>, <<11364, 11364, 1, -10727>>, <<11367, 11371, 2, 1>>,
    <<11373, 11373, 1, -10780>>, <<11374, 11374, 1, -10749>>, <<11375, 11375, 1, -10783>>,
    <<11376, 11376, 1, -10782>>, <<11378, 11378, 1, 1>>, <<11381, 11381, 1, 1>>,
    <<11390, 11391, 1, -10815>>, <<11392, 11490, 2, 1>>, <<11499, 11501, 2, 1>>,
    <<11506, 11506, 1, 1>>, <<42560, 42604, 2, 1>>, <<42624, 42650, 2, 1>>,
    <<42786, 42798, 2, 1>>, <<42802, 42862, 2, 1>>, <<42873, 42875, 2, 1>>,
    <<42877, 42877, 1, -35332>>, <<42878, 42886, 2, 1>>, <<42891, 42891, 1, 1>>,
    <<42893, 42893, 1, -42280>>, <<42896, 42898, 2, 1>>, <<42902, 42920, 2, 1>>,
    <<42922, 42922, 1, -42308>>, <<42923, 42923, 1, -42319>>, <<42924, 42924, 1, -42315>>,
    <<42925, 42925, 1, -42305>>, <<42926, 42926, 1, -42308>>, <<42928, 42928, 1, -42258>>,
    <<42929, 42929, 1, -42282>>, <<42930, 42930, 1, -42261>>, <<42931, 42931, 1, 928>>,
    <<42932, 42946, 2, 1>>, <<42948, 42948, 1, -48>>, <<42949, 42949, 1, -42307>>,
    <<42950, 42950, 1, -35384>>, <<42951, 42953, 2, 1>>, <<42960, 42960, 1, 1>>,
    <<42966, 42968, 2, 1>>, <<42997, 42997, 1, 1>>, <<65313, 65338, 1, 32>>,
    <<66560, 66599, 1, 40>>, <<66736, 66771, 1, 40>>, <<66928, 66938, 1, 39>>,
    <<66940, 66954, 1, 39>>, <<66956, 66962, 1, 39>>, <<66964, 66965, 1, 39>>,
    <<68736, 68786, 1, 64>>, <<71840, 71871, 1, 32>>, <<93760, 93791, 1, 32>>,
    <<125184, 125217, 1, 34>>
  >>

\* r mapped by the ranges t
MapRanges(r, t) ==
  LET hit == {k \in 1..Len(t) :
                t[k][1] <= r /\ r <= t[k][2] /\ (r - t[k][1]) % t[k][3] = 0}
  IN IF hit = {} THEN r ELSE r + t[CHOOSE k \in hit : TRUE][4]

\* unicode.ToLower for a rune at or above RuneSelf
ToLowerRune(r) == MapRanges(r, LowerRanges)

\* the bytes strings.Map writes for the mapped rune: WriteByte below
\* RuneSelf (the letters i and k, the images of U+0130 and U+212A), else
\* WriteRune
WriteRune(r) == IF r < RuneSelf THEN <<LowerChars[r - 96]>> ELSE EncodeRune(r)

RECURSIVE MapLower(_, _)
RECURSIVE MapRune(_, _, _)
\* strings.Map(unicode.ToLower, s) from the byte index i: every rune is
\* replaced by its lower case; a byte that starts no rune is read as
\* RuneError and written as the three bytes of U+FFFD
MapLower(s, i) ==
  IF i >= Len(s) THEN <<>>
  ELSE IF ~IsHigh(s[i + 1]) THEN <<ToLowerCh(s[i + 1])>> \o MapLower(s, i + 1)
  ELSE MapRune(s, i, DecodeRune(s, i))

MapRune(s, i, d) == WriteRune(ToLowerRune(d.r)) \o MapLower(s, i + d.size)

\* strings.ToLower: byte by byte when s is ASCII, else rune by rune; the
\* result can be shorter or longer than s
ToLower(s) == IF IsASCII(s) THEN AsciiLower(s) ELSE MapLower(s, 0)

\* the asciiSpace table of package strings: \t \n \v \f \r and space
VerticalTab == ""
asciiSpace == {" ", "\t", "\n", "\r", "\f", VerticalTab}

\* the White_Space runes above ASCII: U+0085, U+00A0, U+1680,
\* U+2000..U+200A, U+2028, U+2029, U+202F, U+205F, U+3000
SpaceRunes ==
  {133, 160, 5760} \cup (8192..8202) \cup {8232, 8233, 8239, 8287, 12288}

\* unicode.IsSpace for a rune at or above RuneSelf
IsSpace(r) == r \in SpaceRunes

\* the 25 runes of unicode.IsSpace, each as its UTF-8 text
WhiteSpace == {<<c>> : c \in asciiSpace} \cup {EncodeRune(r) : r \in SpaceRunes}

NextLine == EncodeRune(133)
NoBreakSpace == EncodeRune(160)
EmSpace == EncodeRune(8195)
KelvinSign == EncodeRune(8490)
CapitalIDot == EncodeRune(304)
CapitalAStroke == EncodeRune(570)

IsDigit(c) == \E i \in 1..10 : DigitChars[i] = c

DigitVal(c) == (CHOOSE i \in 1..10 : DigitChars[i] = c) - 1

\* Go's s[lo:hi]
Slice(s, lo, hi) == SubSeq(s, lo + 1, hi)

RECURSIVE Str(_)
Str(s) == IF Len(s) = 0 THEN "" ELSE Head(s) \o Str(Tail(s))

RECURSIVE TrimLeftSet(_, _)
TrimLeftSet(s, cut) ==
  IF Len(s) > 0 /\ Head(s) \in cut THEN TrimLeftSet(Tail(s), cut) ELSE s

RECURSIVE TrimRightSet(_, _)
TrimRightSet(s, cut) ==
  IF Len(s) > 0 /\ s[Len(s)] \in cut
    THEN TrimRightSet(SubSeq(s, 1, Len(s) - 1), cut)
    ELSE s

RECURSIVE TrimLeftSpace(_)
RECURSIVE TrimLeftRune(_, _)
\* strings.TrimLeftFunc(s, unicode.IsSpace)
TrimLeftSpace(s) ==
  IF Len(s) = 0 THEN s
  ELSE IF IsHigh(s[1]) THEN TrimLeftRune(s, DecodeRune(s, 0))
  ELSE IF s[1] \in asciiSpace THEN TrimLeftSpace(Tail(s))
  ELSE s

\* s starts with the rune d
TrimLeftRune(s, d) ==
  IF IsSpace(d.r) THEN TrimLeftSpace(SubSeq(s, d.size + 1, Len(s))) ELSE s

RECURSIVE TrimRightSpace(_)
RECURSIVE TrimRightRune(_, _)
\* strings.TrimRightFunc(s, unicode.IsSpace)
TrimRightSpace(s) ==
  IF Len(s) = 0 THEN s
  ELSE IF IsHigh(s[Len(s)]) THEN TrimRightRune(s, DecodeLastRune(s))
  ELSE IF s[Len(s)] \in asciiSpace
    THEN TrimRightSpace(SubSeq(s, 1, Len(s) - 1))
  ELSE s

\* s ends with the rune d
TrimRightRune(s, d) ==
  IF IsSpace(d.r) THEN TrimRightSpace(SubSeq(s, 1, Len(s) - d.size)) ELSE s

\* strings.TrimSpace: the leading and the trailing runes of unicode.IsSpace
\* are cut
TrimSpace(s) == TrimRightSpace(TrimLeftSpace(s))

\* strings.Trim(s, cutset)
Trim(s, cut) == TrimRightSet(TrimLeftSet(s, cut), cut)

HasPrefix(s, p) == Len(s) >= Len(p) /\ SubSeq(s, 1, Len(p)) = p

HasSuffix(s, p) ==
  Len(s) >= Len(p) /\ SubSeq(s, Len(s) - Len(p) + 1, Len(s)) = p

MatchAt(s, sub, i) ==
  i + Len(sub) <= Len(s) /\ Slice(s, i, i + Len(sub)) = sub

\* strings.Index: the first 0-based position of sub in s, -1 when absent
Index(s, sub) ==
  IF \E i \in 0..Len(s) : MatchAt(s, sub, i)
    THEN CHOOSE i \in 0..Len(s) :
           MatchAt(s, sub, i) /\ \A j \in 0..(i - 1) : ~MatchAt(s, sub, j)
    ELSE -1

Contains(s, sub) == Index(s, sub) # -1

RECURSIVE SplitOn(_, _)
\* strings.Split(s, sep) for a one-character separator
SplitOn(s, sep) ==
  LET i == Index(s, <<sep>>) IN
  IF i = -1 THEN <<s>>
  ELSE <<Slice(s, 0, i)>> \o SplitOn(Slice(s, i + 1, Len(s)), sep)

RECURSIVE JoinStr(_, _)
\* strings.Join on TLA+ strings
JoinStr(parts, sep) ==
  IF Len(parts) = 0 THEN ""
  ELSE IF Len(parts) = 1 THEN parts[1]
  ELSE parts[1] \o sep \o JoinStr(Tail(parts), sep)

RECURSIVE NatToStr(_)
NatToStr(n) ==
  IF n < 10 THEN DigitChars[n + 1]
  ELSE NatToStr(n \div 10) \o DigitChars[(n % 10) + 1]

\* fmt's %d
IntToStr(n) == IF n < 0 THEN "-" \o NatToStr(0 - n) ELSE NatToStr(n)


(***************************************************************************)
(* strconv and net/netip, as far as the filter parser uses them.           *)
(***************************************************************************)
AllDigits(s) == \A i \in 1..Len(s) : IsDigit(s[i])

RECURSIVE DigitsVal(_)
DigitsVal(s) ==
  IF Len(s) = 0 THEN 0
  ELSE 10 * DigitsVal(SubSeq(s, 1, Len(s) - 1)) + DigitVal(s[Len(s)])

StripSign(s) ==
  IF Len(s) > 0 /\ s[1] \in {"+", "-"} THEN Tail(s) ELSE s

\* the digits of a decimal text from its first non-zero digit on
SigDigits(s) == TrimLeftSet(StripSign(s), {"0"})

IsNegative(s) == Len(s) > 0 /\ s[1] = "-"

\* a <= b for two digit sequences of the same length
DigitsLeq(a, b) ==
  \/ a = b
  \/ \E i \in 1..Len(a) :
       /\ DigitVal(a[i]) < DigitVal(b[i])
       /\ \A j \in 1..(i - 1) : a[j] = b[j]

MaxInt64Digits ==
  <<"9","2","2","3","3","7","2","0","3","6","8","5","4","7","7","5","8","0","7">>
MinInt64Digits ==
  <<"9","2","2","3","3","7","2","0","3","6","8","5","4","7","7","5","8","0","8">>

\* strconv.Atoi succeeds: an optional sign and at least one decimal digit,
\* of a value that fits the 64-bit int
AtoiOk(s) ==
  LET d == StripSign(s)
      g == SigDigits(s)
  IN /\ Len(d) > 0 /\ AllDigits(d)
     /\ \/ Len(g) < 19
        \/ /\ Len(g) = 19
           /\ DigitsLeq(g, IF IsNegative(s) THEN MinInt64Digits
                           ELSE MaxInt64Digits)

\* the int has at most 9 significant digits: it is a model integer
AtoiFits(s) == Len(SigDigits(s)) <= 9

\* the int of strconv.Atoi, for a text with AtoiFits
AtoiVal(s) ==
  IF IsNegative(s) THEN 0 - DigitsVal(Tail(s))
  ELSE DigitsVal(StripSign(s))

\* strconv.Itoa of the int of strconv.Atoi, as a character sequence
AtoiText(s) ==
  LET g == SigDigits(s) IN
  IF Len(g) = 0 THEN <<"0">>
  ELSE IF IsNegative(s) THEN <<"-">> \o g ELSE g

\* lo <= n /\ n <= hi for the int n of strconv.Atoi and model integers
AtoiBetween(s, lo, hi) ==
  AtoiFits(s) /\ lo <= AtoiVal(s) /\ AtoiVal(s) <= hi

\* n < lo for the int n of strconv.Atoi and a model integer of at most 9
\* digits
AtoiBelow(s, lo) ==
  IF AtoiFits(s) THEN AtoiVal(s) < lo ELSE IsNegative(s)

\* one decimal field of a dotted IPv4 address, as netip reads it:
\* 1 to 3 digits, no leading zero, at most 255
IsIPv4Field(s) ==
  /\ Len(s) >= 1 /\ Len(s) <= 3 /\ AllDigits(s)
  /\ (Len(s) > 1 => s[1] # "0")
  /\ DigitsVal(s) <= 255

\* netip's parseIPv4Fields: four decimal fields separated by dots
ParseIPv4Ok(s) ==
  LET f == SplitOn(s, ".") IN
  Len(f) = 4 /\ \A i \in 1..4 : IsIPv4Field(f[i])

ParseIPv4Bytes(s) ==
  LET f == SplitOn(s, ".") IN [i \in 1..4 |-> DigitsVal(f[i])]

HexChars == <<"0","1","2","3","4","5","6","7","8","9",
              "a","b","c","d","e","f">>

IsHexDigit(c) == \E i \in 1..16 : HexChars[i] = ToLowerCh(c)

HexDigitVal(c) == (CHOOSE i \in 1..16 : HexChars[i] = ToLowerCh(c)) - 1

RECURSIVE HexRun(_)
\* the number of hexadecimal digits s starts with
HexRun(s) ==
  IF Len(s) > 0 /\ IsHexDigit(s[1]) THEN 1 + HexRun(Tail(s)) ELSE 0

RECURSIVE HexVal(_)
HexVal(s) ==
  IF Len(s) = 0 THEN 0
  ELSE 16 * HexVal(SubSeq(s, 1, Len(s) - 1)) + HexDigitVal(s[Len(s)])

\* the first 0-based position of a character of the set in s, -1 when absent
IndexAny(s, set) ==
  IF \E i \in 1..Len(s) : s[i] \in set
    THEN (CHOOSE i \in 1..Len(s) :
            s[i] \in set /\ \A j \in 1..(i - 1) : s[j] \notin set) - 1
    ELSE -1

NoAddr == [ok |-> FALSE, bytes |-> <<>>, zone |-> FALSE]

Zeros(n) == [i \in 1..n |-> 0]

\* the end of netip's parseIPv6: the text is used up and the ellipsis is
\* expanded
ParseIPv6End(s, ip, ellipsis, zone) ==
  IF Len(s) # 0 THEN NoAddr
  ELSE IF Len(ip) < 16
    THEN IF ellipsis < 0 THEN NoAddr
         ELSE [ok |-> TRUE, zone |-> zone,
               bytes |-> SubSeq(ip, 1, ellipsis) \o Zeros(16 - Len(ip))
                         \o SubSeq(ip, ellipsis + 1, Len(ip))]
  ELSE IF ellipsis >= 0 THEN NoAddr
  ELSE [ok |-> TRUE, zone |-> zone, bytes |-> ip]

RECURSIVE ParseIPv6Loop(_, _, _, _)
\* after a field of the loop: rest is the text after its hexadecimal
\* digits and ip2 the bytes with the field appended; a '.' after the digits
\* makes the field the start of an embedded IPv4 address
ParseIPv6Next(s, ip, ellipsis, zone, rest, ip2) ==
  IF Len(rest) > 0 /\ rest[1] = "."
    THEN IF (ellipsis < 0 /\ Len(ip) # 12) \/ Len(ip) + 4 > 16
              \/ ~ParseIPv4Ok(s)
           THEN NoAddr
         ELSE ParseIPv6End(<<>>, ip \o ParseIPv4Bytes(s), ellipsis, zone)
  ELSE IF Len(rest) = 0 THEN ParseIPv6End(rest, ip2, ellipsis, zone)
  ELSE IF rest[1] # ":" \/ Len(rest) = 1 THEN NoAddr
  ELSE IF rest[2] = ":"
    THEN IF ellipsis >= 0 THEN NoAddr
         ELSE IF Len(rest) = 2
           THEN ParseIPv6End(<<>>, ip2, Len(ip2), zone)
         ELSE ParseIPv6Loop(Slice(rest, 2, Len(rest)), ip2, Len(ip2), zone)
  ELSE ParseIPv6Loop(Tail(rest), ip2, ellipsis, zone)

\* the two bytes of a 16-bit field
FieldBytes(acc) == <<acc \div 256, acc % 256>>

\* a field of off hexadecimal digits, one to four
ParseIPv6Field(s, ip, ellipsis, zone, off) ==
  IF off > 4 \/ off = 0 THEN NoAddr
  ELSE ParseIPv6Next(s, ip, ellipsis, zone, Slice(s, off, Len(s)),
                     ip \o FieldBytes(HexVal(SubSeq(s, 1, off))))

\* the loop of netip's parseIPv6 over the rest s of the text, with the
\* bytes ip parsed so far and the position of the ellipsis (-1 for none)
ParseIPv6Loop(s, ip, ellipsis, zone) ==
  IF Len(ip) >= 16 THEN ParseIPv6End(s, ip, ellipsis, zone)
  ELSE ParseIPv6Field(s, ip, ellipsis, zone, HexRun(s))

\* the address text s without its zone: a leading "::" is an ellipsis at
\* position 0
ParseIPv6Text(s, zone) ==
  IF s = <<":", ":">> THEN [ok |-> TRUE, zone |-> zone, bytes |-> Zeros(16)]
  ELSE ParseIPv6Loop(IF HasPrefix(s, <<":", ":">>) THEN Slice(s, 2, Len(s))
                     ELSE s,
                     <<>>, IF HasPrefix(s, <<":", ":">>) THEN 0 ELSE -1, zone)

\* p is the position of the '%' that starts the zone, which is not empty
ParseIPv6Zone(in, p) ==
  IF p # -1 /\ p + 1 = Len(in) THEN NoAddr
  ELSE ParseIPv6Text(IF p = -1 THEN in ELSE Slice(in, 0, p), p # -1)

\* netip's parseIPv6
ParseIPv6(in) == ParseIPv6Zone(in, Index(in, <<"%">>))

\* netip.ParseAddr: ok, the bytes of AsSlice (4 for IPv4, 16 for IPv6) and
\* whether the address has a zone.  The first '.', ':' or '%' decides the
\* family.
ParseAddr(s) ==
  LET i == IndexAny(s, {".", ":", "%"}) IN
  IF i = -1 THEN NoAddr
  ELSE IF s[i + 1] = "."
    THEN IF ParseIPv4Ok(s)
           THEN [ok |-> TRUE, zone |-> FALSE, bytes |-> ParseIPv4Bytes(s)]
         ELSE NoAddr
  ELSE IF s[i + 1] = ":" THEN ParseIPv6(s)
  ELSE NoAddr

ParseAddrOk(s) == ParseAddr(s).ok

RECURSIVE LastIndexCh(_, _)
LastIndexCh(s, c) ==
  IF Len(s) = 0 THEN -1
  ELSE IF s[Len(s)] = c THEN Len(s) - 1
  ELSE LastIndexCh(SubSeq(s, 1, Len(s) - 1), c)

NoPrefix == [ok |-> FALSE, bytes |-> <<>>, bits |-> 0]

\* the prefix of the address ip and the length text bitsStr: decimal
\* digits without sign or leading zero, at most 32 for IPv4 and 128 for
\* IPv6; an IPv6 zone is refused
PrefixOf(ip, bitsStr) ==
  IF ~ip.ok \/ ip.zone THEN NoPrefix
  ELSE IF Len(bitsStr) = 0 \/ Len(bitsStr) > 3 \/ ~AllDigits(bitsStr)
            \/ (Len(bitsStr) > 1 /\ bitsStr[1] = "0")
    THEN NoPrefix
  ELSE IF DigitsVal(bitsStr) > 8 * Len(ip.bytes) THEN NoPrefix
  ELSE [ok |-> TRUE, bytes |-> ip.bytes, bits |-> DigitsVal(bitsStr)]

\* i is the position of the last '/'
ParsePrefixAt(s, i) ==
  IF i < 0 THEN NoPrefix
  ELSE PrefixOf(ParseAddr(Slice(s, 0, i)), Slice(s, i + 1, Len(s)))

\* netip.ParsePrefix: ok, the bytes of Addr().AsSlice() and Bits()
ParsePrefix(s) == ParsePrefixAt(s, LastIndexCh(s, "/"))

ParsePrefixOk(s) == ParsePrefix(s).ok

(***************************************************************************)
(* Decimal numbers of any size, for strconv.ParseFloat and the shortest    *)
(* formatting of a float64.  A number is [d, p]: the digits d (0..9, the   *)
(* first and the last not 0) and the position p of the point; its value is *)
(* 0.d[1]d[2]... * 10^p.  Zero has no digits.                              *)
(***************************************************************************)
MinOf(S) == CHOOSE x \in S : \A y \in S : x <= y

\* the number of the digits d with the point after the first p of them
DecOf(d, p) ==
  LET nz == {i \in 1..Len(d) : d[i] # 0} IN
  IF nz = {} THEN [d |-> <<>>, p |-> 0]
  ELSE LET a == MinOf(nz)
           z == 0 - MinOf({0 - i : i \in nz})
       IN [d |-> SubSeq(d, a, z), p |-> p - (a - 1)]

\* the integer of the digits d
DecInt(d) == DecOf(d, Len(d))

DigitAt(x, i) == IF i >= 1 /\ i <= Len(x.d) THEN x.d[i] ELSE 0

\* 2 * x: a digit doubles and takes the carry of the digit after it
Dbl(x) ==
  LET n == Len(x.d) IN
  DecOf(SubSeq([i \in 1..(n + 1) |->
                  ((2 * DigitAt(x, i - 1)) % 10)
                  + (IF DigitAt(x, i) >= 5 THEN 1 ELSE 0)], 1, n + 1),
        x.p + 1)

\* x / 2: a digit halves and takes the remainder of the digit before it
Hlv(x) ==
  LET n == Len(x.d) IN
  DecOf(SubSeq([i \in 1..(n + 1) |->
                  (DigitAt(x, i) + 10 * (DigitAt(x, i - 1) % 2)) \div 2],
               1, n + 1),
        x.p)

RECURSIVE Scale(_, _)
\* x * 2^k
Scale(x, k) ==
  IF k = 0 THEN x
  ELSE IF k = 1 THEN Dbl(x)
  ELSE IF k = -1 THEN Hlv(x)
  ELSE LET h == Scale(x, k \div 2)
       IN IF Len(h.d) < 0 THEN h ELSE Scale(h, k - (k \div 2))

\* -1, 0 or 1 as x is less than, equal to or greater than y
DecCmp(x, y) ==
  IF x = y THEN 0
  ELSE IF Len(x.d) = 0 THEN -1
  ELSE IF Len(y.d) = 0 THEN 1
  ELSE IF x.p # y.p THEN (IF x.p < y.p THEN -1 ELSE 1)
  ELSE LET n == IF Len(x.d) > Len(y.d) THEN Len(x.d) ELSE Len(y.d)
           i == MinOf({j \in 1..n : DigitAt(x, j) # DigitAt(y, j)})
       IN IF DigitAt(x, i) < DigitAt(y, i) THEN -1 ELSE 1

\* the digits of the integer part of x
IntDigits(x) ==
  IF x.p <= 0 THEN <<>> ELSE SubSeq([i \in 1..x.p |-> DigitAt(x, i)], 1, x.p)

\* the fractional part of x
FracPart(x) ==
  IF x.p <= 0 THEN x ELSE DecOf(SubSeq(x.d, x.p + 1, Len(x.d)), 0)

RECURSIVE IncDigits(_)
\* the digits of n + 1 from the digits of the integer n
IncDigits(d) ==
  IF Len(d) = 0 THEN <<1>>
  ELSE IF d[Len(d)] < 9 THEN [d EXCEPT ![Len(d)] = @ + 1]
  ELSE IncDigits(SubSeq(d, 1, Len(d) - 1)) \o <<0>>

RECURSIVE DecDigits(_)
\* the digits of n - 1 from the digits of the integer n > 0, a leading 0
\* kept
DecDigits(d) ==
  IF d[Len(d)] > 0 THEN [d EXCEPT ![Len(d)] = @ - 1]
  ELSE DecDigits(SubSeq(d, 1, Len(d) - 1)) \o <<9>>

IsOddDigits(d) == Len(d) > 0 /\ d[Len(d)] % 2 = 1

(***************************************************************************)
(* float64.  A finite value is m * 2^b with m < 2^53 and b >= -1074; the   *)
(* model holds it as [c, neg, d, p]: c is "num", "inf" or "nan", and d, p  *)
(* are the shortest decimal digits that read back as the value and the     *)
(* position of the point (strconv's decimalSlice), which identify it.      *)
(***************************************************************************)
Two52 == <<4,5,0,3,5,9,9,6,2,7,3,7,0,4,9,6>>
Two53 == <<9,0,0,7,1,9,9,2,5,4,7,4,0,9,9,2>>
MinBinExp == -1074
MaxBinExp == 971

FloatNum(neg, d, p) == [c |-> "num", neg |-> neg, d |-> d, p |-> p]
FloatInf(neg) == [c |-> "inf", neg |-> neg, d |-> <<>>, p |-> 0]
FloatNaN == [c |-> "nan", neg |-> FALSE, d |-> <<>>, p |-> 0]

RECURSIVE Normalize(_, _)
\* w * 2^b is the number; the pair with w in [2^52, 2^53), or b = -1074
Normalize(w, b) ==
  IF DecCmp(w, DecInt(Two53)) >= 0 THEN Normalize(Hlv(w), b + 1)
  ELSE IF DecCmp(w, DecInt(Two52)) < 0 /\ b > MinBinExp
    THEN Normalize(Dbl(w), b - 1)
  ELSE [w |-> w, b |-> b]

\* a binary exponent near that of the number v, for a 53-bit mantissa
BinEstimate(v) ==
  IF ((v.p * 3321928) \div 1000000) - 52 < MinBinExp THEN MinBinExp
  ELSE ((v.p * 3321928) \div 1000000) - 52

\* the mantissa m0 with the comparison c of the dropped fraction with 1/2:
\* rounded up above the half, and on the half when m0 is odd
RoundHalfEven(m0, c) ==
  IF c > 0 \/ (c = 0 /\ IsOddDigits(m0)) THEN IncDigits(m0) ELSE m0

\* a mantissa rounded up to 2^53 is 2^52 with the next exponent
Renormalize(m, b) ==
  IF m = Two53 THEN [m |-> Two52, b |-> b + 1] ELSE [m |-> m, b |-> b]

\* the float64 of the normalized pair n
RoundMantissa(n) ==
  Renormalize(RoundHalfEven(IntDigits(n.w),
                            DecCmp(FracPart(n.w), DecOf(<<5>>, 0))),
              n.b)

\* the float64 nearest to the number v > 0, ties to the even mantissa:
\* [m, b] with the digits of the mantissa m, for the value m * 2^b
NearestBinary(v) ==
  RoundMantissa(Normalize(Scale(v, 0 - BinEstimate(v)), BinEstimate(v)))

\* the digits of x above the weight 10^c
KeptDigits(x, c) ==
  IF x.p - c <= 0 THEN <<>>
  ELSE SubSeq([i \in 1..(x.p - c) |-> DigitAt(x, i)], 1, x.p - c)

\* the number of the digits ud above the weight 10^c, ud being the kept
\* digits of f plus one
UpOf(f, c, ud) ==
  DecOf(ud, f.p + Len(ud) - (IF f.p - c > 0 THEN f.p - c ELSE 0)
                + (IF f.p - c < 0 THEN c - f.p ELSE 0))

\* whether f is nearer to the multiple above than to the one below, the
\* kept digits kd deciding a tie
NearerUp(f, c, kd) ==
  LET first == IF f.p - c >= 0 THEN DigitAt(f, f.p - c + 1) ELSE 0
      more == Len(f.d) > f.p - c + 1
  IN first > 5 \/ (first = 5 /\ more) \/ (first = 5 /\ ~more /\ IsOddDigits(kd))

RECURSIVE ShortestFrom(_, _, _, _, _)
\* the choice between the multiples down and up of 10^c around f
ShortestChoice(f, lo, hi, inclusive, c, down, up, okDown, okUp, nearerUp) ==
  IF okDown /\ okUp THEN (IF nearerUp THEN up ELSE down)
  ELSE IF okDown THEN down
  ELSE IF okUp THEN up
  ELSE ShortestFrom(f, lo, hi, inclusive, c - 1)

\* cd, cu: the comparisons of down with lo and of up with hi
ShortestCompared(f, lo, hi, inclusive, c, kd, down, up, cd, cu) ==
  ShortestChoice(f, lo, hi, inclusive, c, down, up,
                 Len(down.d) > 0 /\ (cd > 0 \/ (inclusive /\ cd = 0)),
                 cu < 0 \/ (inclusive /\ cu = 0),
                 NearerUp(f, c, kd))

ShortestAround(f, lo, hi, inclusive, c, kd, down, up) ==
  ShortestCompared(f, lo, hi, inclusive, c, kd, down, up,
                   DecCmp(down, lo), DecCmp(up, hi))

ShortestKept(f, lo, hi, inclusive, c, kd) ==
  ShortestAround(f, lo, hi, inclusive, c, kd,
                 DecOf(kd, f.p), UpOf(f, c, IncDigits(kd)))

\* strconv's shortest digits: the multiple of the largest power of ten
\* 10^c that lies between the neighbours' midpoints lo and hi of f (them
\* included for an even mantissa), the nearer to f of two, the even one on
\* a tie
ShortestFrom(f, lo, hi, inclusive, c) ==
  ShortestKept(f, lo, hi, inclusive, c, KeptDigits(f, c))

\* the search starts at the weight of the first digit of hi
ShortestBetween(f, lo, hi, inclusive) ==
  ShortestFrom(f, lo, hi, inclusive, hi.p - 1)

\* the midpoint below m * 2^b: (4m - 1) * 2^(b-2) at a power of two, whose
\* lower neighbour is half as far, (2m - 1) * 2^(b-1) otherwise
LowerMidpoint(m, b, m2) ==
  Scale(DecInt(DecDigits(IF m = Two52 /\ b > MinBinExp
                           THEN IntDigits(Dbl(DecInt(m2))) ELSE m2)),
        IF m = Two52 /\ b > MinBinExp THEN b - 2 ELSE b - 1)

\* m2: the digits of 2m
ShortestOf(m, b, m2) ==
  ShortestBetween(Scale(DecInt(m), b), LowerMidpoint(m, b, m2),
                  Scale(DecInt(IncDigits(m2)), b - 1), ~IsOddDigits(m))

\* the shortest digits of the float64 m * 2^b, m > 0
Shortest(m, b) == ShortestOf(m, b, IntDigits(Dbl(DecInt(m))))

\* a text of at most 15 significant digits in the normal range is its own
\* shortest form
ReadsBack(v) == Len(v.d) <= 15 /\ v.p >= -306 /\ v.p <= 308

FloatOfDigits(neg, s) == [ok |-> TRUE, f |-> FloatNum(neg, s.d, s.p)]

\* the float64 m * 2^b of the pair r, out of range above 2^971
FloatOfBinary(neg, r) ==
  IF r.b > MaxBinExp THEN [ok |-> FALSE, f |-> FloatInf(neg)]
  ELSE IF Len(r.m) = 0 THEN FloatOfDigits(neg, DecInt(<<>>))
  ELSE FloatOfDigits(neg, Shortest(r.m, r.b))

\* the float64 of the sign and the number v >= 0, and whether it is in
\* range: [ok, f]
RoundToFloat(neg, v) ==
  IF Len(v.d) = 0 \/ v.p < -330 \/ v.p > 310 \/ ReadsBack(v)
    THEN [ok |-> v.p <= 310,
          f |-> IF v.p > 310 THEN FloatInf(neg)
                ELSE IF ReadsBack(v) THEN FloatNum(neg, v.d, v.p)
                ELSE FloatNum(neg, <<>>, 0)]
  ELSE FloatOfBinary(neg, NearestBinary(v))

(***************************************************************************)
(* strconv.ParseFloat(s, 64): the syntax of readFloat and special.         *)
(***************************************************************************)
IsMantissaChar(c, hex) == IsDigit(c) \/ (hex /\ IsHexDigit(c))

\* the length of the mantissa t starts with: digits, underscores and at
\* most one point
MantissaLen(t, hex) ==
  MinOf({i \in 1..Len(t) :
           \/ ~(IsMantissaChar(t[i], hex) \/ t[i] \in {"_", "."})
           \/ (t[i] = "." /\ \E j \in 1..(i - 1) : t[j] = ".")}
        \cup {Len(t) + 1}) - 1

RECURSIVE ExponentVal(_, _)
\* readFloat's exponent: digits are added while it is below 10000
ExponentVal(t, e) ==
  IF Len(t) = 0 THEN e
  ELSE IF t[1] = "_" THEN ExponentVal(Tail(t), e)
  ELSE ExponentVal(Tail(t),
                   IF e < 10000 THEN e * 10 + DigitVal(t[1]) ELSE e)

\* strconv's underscoreOK on the number after its sign and base prefix: an
\* underscore stands between two digits, or between the prefix and a digit
UnderscoreOK(t, hex) ==
  \A i \in 1..Len(t) :
    t[i] = "_" =>
      /\ i < Len(t) /\ IsMantissaChar(t[i + 1], hex)
      /\ IF i = 1 THEN hex ELSE IsMantissaChar(t[i - 1], hex)

\* the integer after the even integer of the digits u
AddOne(u) ==
  IF Len(u) = 0 THEN DecInt(<<1>>) ELSE DecInt([u EXCEPT ![Len(u)] = @ + 1])

\* y + bit for the even integer y
AddBit(y, bit) == IF bit = 0 THEN y ELSE AddOne(IntDigits(y))

\* 2 * x + bit
AppendBit(x, bit) == AddBit(Dbl(x), bit)

RECURSIVE HexToDec(_, _, _)
\* the integer of the hexadecimal digits h after the integer x, bit by
\* bit; k is the weight of the next bit of the first digit
HexToDec(h, x, k) ==
  IF Len(h) = 0 THEN x
  ELSE IF Len(x.d) < 0 THEN x
  ELSE HexToDec(IF k = 1 THEN Tail(h) ELSE h,
                AppendBit(x, (h[1] \div k) % 2),
                IF k = 1 THEN 8 ELSE k \div 2)

NoFloat == [ok |-> FALSE, f |-> FloatNaN]

\* the number m * 2^e2 of a hexadecimal mantissa; a value beyond the range
\* of float64 on either side is replaced by 10^399 or 10^-401
HexNumber(m, e2) ==
  IF Len(m.d) = 0 THEN m
  ELSE IF e2 + (((m.p - 1) * 3321) \div 1000) > 1024 THEN DecOf(<<1>>, 400)
  ELSE IF e2 + ((m.p * 3322) \div 1000) + 1 < -1076 THEN DecOf(<<1>>, -400)
  ELSE Scale(m, e2)

DigitVals(dc) == SubSeq([i \in 1..Len(dc) |-> HexDigitVal(dc[i])], 1, Len(dc))

\* the digits of the mantissa text, as numbers
MantissaDigits(mant, hex) ==
  LET IsD(c) == IsMantissaChar(c, hex) IN DigitVals(SelectSeq(mant, IsD))

\* the number of mantissa digits before the point
IntCount(mant, hex, dot) ==
  LET IsD(c) == IsMantissaChar(c, hex) IN
  Len(SelectSeq(IF dot = -1 THEN mant ELSE Slice(mant, 0, dot), IsD))

\* the value of the number read: digs are the mantissa digits, intCount of
\* them before the point, e the exponent
ReadValue(neg, hex, digs, intCount, e) ==
  RoundToFloat(neg,
               IF hex THEN HexNumber(HexToDec(digs, DecInt(<<>>), 8),
                                     e - 4 * (Len(digs) - intCount))
               ELSE DecOf(digs, intCount + e))

\* the exponent text ed after its sign, when there is an exponent; the
\* number is refused without a digit there
ReadExponentDigits(neg, hex, digs, intCount, hasExp, negExp, ed) ==
  IF hasExp /\ (Len(ed) = 0 \/ ~IsDigit(ed[1])
                \/ \E i \in 1..Len(ed) : ~(IsDigit(ed[i]) \/ ed[i] = "_"))
    THEN NoFloat
  ELSE ReadValue(neg, hex, digs, intCount,
                 (IF negExp THEN -1 ELSE 1) * ExponentVal(ed, 0))

\* rest is the text after the mantissa: nothing, or an exponent, which a
\* hexadecimal mantissa needs
ReadExponent(neg, hex, digs, intCount, rest) ==
  IF Len(digs) = 0 THEN NoFloat
  ELSE IF Len(rest) = 0 /\ hex THEN NoFloat
  ELSE IF Len(rest) > 0 /\ ToLowerCh(rest[1]) # (IF hex THEN "p" ELSE "e")
    THEN NoFloat
  ELSE ReadExponentDigits(neg, hex, digs, intCount, Len(rest) > 0,
                          Len(rest) > 1 /\ rest[2] = "-",
                          IF Len(rest) > 1 /\ rest[2] \in {"+", "-"}
                            THEN SubSeq(rest, 3, Len(rest))
                          ELSE IF Len(rest) > 0 THEN Tail(rest)
                          ELSE <<>>)

\* the mantissa mant and the text rest after it
ReadMantissa(neg, hex, mant, rest) ==
  ReadExponent(neg, hex, MantissaDigits(mant, hex),
               IntCount(mant, hex, Index(mant, <<".">>)), rest)

\* t is the text after the sign and the base prefix, ml the length of its
\* mantissa
ReadDigits(neg, hex, t, ml) ==
  IF ~UnderscoreOK(t, hex) THEN NoFloat
  ELSE ReadMantissa(neg, hex, SubSeq(t, 1, ml), SubSeq(t, ml + 1, Len(t)))

ReadBase(neg, hex, t) == ReadDigits(neg, hex, t, MantissaLen(t, hex))

\* the prefix 0x of a hexadecimal number, which has a digit after it
IsHexPrefix(body) ==
  Len(body) > 2 /\ body[1] = "0" /\ ToLowerCh(body[2]) = "x"

\* readFloat and the conversion, on the text after the sign
ReadFloat(neg, body) ==
  ReadBase(neg, IsHexPrefix(body),
           IF IsHexPrefix(body) THEN Slice(body, 2, Len(body)) ELSE body)

\* strconv.ParseFloat(s, 64): [ok, f]; ok is FALSE for a syntax error and
\* for a value out of range (f is then the infinity)
ParseFloat(s) ==
  IF AsciiLower(StripSign(s)) \in {<<"i","n","f">>,
                                <<"i","n","f","i","n","i","t","y">>}
    THEN [ok |-> TRUE, f |-> FloatInf(IsNegative(s))]
  ELSE IF AsciiLower(s) = <<"n","a","n">> THEN [ok |-> TRUE, f |-> FloatNaN]
  ELSE IF Len(StripSign(s)) = 0 THEN NoFloat
  ELSE ReadFloat(IsNegative(s), StripSign(s))

ParseFloatOk(s) == ParseFloat(s).ok

(***************************************************************************)
(* fmt.Sprint of a float64: strconv's %e and %f of the shortest digits,   *)
(* %e for a decimal exponent below -4 or from 6 on.                        *)
(***************************************************************************)
RECURSIVE DigitsStr(_)
DigitsStr(d) ==
  IF Len(d) = 0 THEN "" ELSE DigitChars[d[1] + 1] \o DigitsStr(Tail(d))

RECURSIVE ZerosStr(_)
ZerosStr(n) == IF n <= 0 THEN "" ELSE "0" \o ZerosStr(n - 1)

\* strconv's fmtE with the precision of the shortest digits
FmtE(d, p) ==
  LET exp == p - 1
      a == IF exp < 0 THEN 0 - exp ELSE exp
  IN DigitsStr(<<d[1]>>)
     \o (IF Len(d) > 1 THEN "." \o DigitsStr(Tail(d)) ELSE "")
     \o "e" \o (IF exp < 0 THEN "-" ELSE "+")
     \o (IF a < 10 THEN "0" ELSE "") \o NatToStr(a)

\* strconv's fmtF with the precision of the shortest digits
FmtF(d, p) ==
  IF p <= 0 THEN "0." \o ZerosStr(0 - p) \o DigitsStr(d)
  ELSE IF Len(d) <= p THEN DigitsStr(d) \o ZerosStr(p - Len(d))
  ELSE DigitsStr(SubSeq(d, 1, p)) \o "." \o DigitsStr(SubSeq(d, p + 1, Len(d)))

\* fmt.Sprint(f) of a float64
FormatFloat(f) ==
  IF f.c = "nan" THEN "NaN"
  ELSE IF f.c = "inf" THEN (IF f.neg THEN "-Inf" ELSE "+Inf")
  ELSE (IF f.neg THEN "-" ELSE "")
       \o (IF Len(f.d) = 0 THEN "0"
           ELSE IF f.p - 1 < -4 \/ f.p - 1 >= 6 THEN FmtE(f.d, f.p)
           ELSE FmtF(f.d, f.p))

(***************************************************************************)
(* Program constants of filter_lexer.go and vpc_flow_logs_schema.go.       *)
(***************************************************************************)
MinPort == 0
MaxPort == 65535
MaxIPOctet == 255
MaxIPParts == 4
DefaultSchemaVersion == 2
DefaultVersion == 2
DefaultLimit == 100
DefaultPollInterval == 500
MaxPoll == 10000

(***************************************************************************)
(* VPCFlowLogsSchema.                                                      *)
(***************************************************************************)
ParsePatternV2 == "parse @message \"* * * * * * * * * * * * * *\" as version, account_id, interface_id, srcaddr, dstaddr, srcport, dstport, protocol, packets, bytes, start, end, action, log_status"
ParsePatternV3 == "parse @message \"* * * * * * * * * * * * * * * * * * * * * * * * * * * * * * *\" as version, account_id, interface_id, srcaddr, dstaddr, srcport, dstport, protocol, packets, bytes, start, end, action, log_status, vpc_id, subnet_id, instance_id, tcp_flags, type, pkt_srcaddr, pkt_dstaddr, region, az_id, sublocation_type, sublocation_id, pkt_src_aws_service, pkt_dst_aws_service, flow_direction, traffic_path"
ParsePatternV5 == ParsePatternV3

FieldsV2 ==
  {"version", "account_id", "interface_id", "srcaddr", "dstaddr",
   "srcport", "dstport", "protocol", "packets", "bytes",
   "start", "end", "action", "log_status"}

FieldsV3 ==
  FieldsV2 \cup
  {"vpc_id", "subnet_id", "instance_id", "tcp_flags", "type",
   "pkt_srcaddr", "pkt_dstaddr", "region", "az_id", "sublocation_type",
   "sublocation_id", "pkt_src_aws_service", "pkt_dst_aws_service",
   "flow_direction", "traffic_path"}

SupportedVersions == {2, 3, 5}

versionFields(v) == IF v = 2 THEN FieldsV2 ELSE FieldsV3

NoErr == [kind |-> "none", args |-> <<>>]

Err(kind, args) == [kind |-> kind, args |-> args]

\* GetParsePattern: [pattern, err]
GetParsePattern(version) ==
  IF version = 2 THEN [pattern |-> ParsePatternV2, err |-> NoErr]
  ELSE IF version = 3 THEN [pattern |-> ParsePatternV3, err |-> NoErr]
  ELSE IF version = 5 THEN [pattern |-> ParsePatternV5, err |-> NoErr]
  ELSE [pattern |-> "",
        err |-> Err("unsupported version for parse pattern",
                    <<IntToStr(version)>>)]

ValidateFieldSkipsVersion(field, version) ==
  IF version \notin SupportedVersions
    THEN Err("invalid flow log version", <<IntToStr(version)>>)
  ELSE IF field = "duration" \/ field = "*" THEN NoErr
  ELSE IF field \in FieldsV3 THEN NoErr
  ELSE Err("invalid field for version", <<field, IntToStr(version)>>)

\* ValidateField: the error, NoErr for nil
ValidateField(field, version) ==
  IF version \notin SupportedVersions
    THEN Err("invalid flow log version", <<IntToStr(version)>>)
  ELSE IF field = "duration" \/ field = "*" THEN NoErr
  ELSE IF field \in versionFields(version) THEN NoErr
  ELSE Err("invalid field for version", <<field, IntToStr(version)>>)

ValidateVersion(version) ==
  IF version \notin SupportedVersions
    THEN Err("invalid flow log version", <<IntToStr(version)>>)
  ELSE NoErr

GetDefaultVersion == DefaultVersion

IsNumeric(field) ==
  field \in {"srcport", "dstport", "protocol", "packets", "bytes",
             "start", "end", "duration"}

GetComputedFieldExpression(field, version) ==
  IF field = "duration" THEN "end - start" ELSE ""

(***************************************************************************)
(* Expr.  A node records its Go type in t and whether the interface holds *)
(* a pointer (the parser builds pointers; ValidateFilter's type switch   *)
(* tells *And, *Or and *NotExpr from the value types).  Nil is the nil    *)
(* interface.  A Value is an int, a float64 or a string.                  *)
(***************************************************************************)
Nil == [t |-> "nil"]

IntV(n) == [k |-> "int", n |-> n]
\* an int of more than 9 significant digits, by its decimal text
BigIntV(s) == [k |-> "bigint", s |-> s]
\* the int that strconv.Atoi reads
AtoiV(s) == IF AtoiFits(s) THEN IntV(AtoiVal(s)) ELSE BigIntV(AtoiText(s))
\* the float64 that strconv.ParseFloat reads from the text s
FloatOf(f) == [k |-> "float", f |-> f]
FloatV(s) == FloatOf(ParseFloat(s).f)
StrV(s) == [k |-> "str", s |-> s]

LeafTypes == {"Eq", "Neq", "Gt", "Lt", "Gte", "Lte", "Like", "NotLike",
              "IsIpv4InSubnet"}

Leaf(t, field, value) ==
  [t |-> t, ptr |-> TRUE, Field |-> field, Value |-> value]

LeafVal(t, field, value) ==
  [t |-> t, ptr |-> FALSE, Field |-> field, Value |-> value]

AndP(subs) == [t |-> "And", ptr |-> TRUE, subs |-> subs]
OrP(subs) == [t |-> "Or", ptr |-> TRUE, subs |-> subs]
NotP(sub) == [t |-> "Not", ptr |-> TRUE, sub |-> sub]
AndVal(subs) == [t |-> "And", ptr |-> FALSE, subs |-> subs]
OrVal(subs) == [t |-> "Or", ptr |-> FALSE, subs |-> subs]
NotVal(sub) == [t |-> "Not", ptr |-> FALSE, sub |-> sub]

(***************************************************************************)
(* expressions.go: rendering.                                              *)
(***************************************************************************)
RECURSIVE EscapeQuotes(_)
\* strings.ReplaceAll(x, "'", "\\'")
EscapeQuotes(s) ==
  IF Len(s) = 0 THEN <<>>
  ELSE (IF Head(s) = "'" THEN <<"\\", "'">> ELSE <<Head(s)>>)
       \o EscapeQuotes(Tail(s))

quote(v) ==
  IF v.k = "str" THEN "'" \o Str(EscapeQuotes(v.s)) \o "'"
  ELSE IF v.k = "int" THEN IntToStr(v.n)
  ELSE IF v.k = "bigint" THEN Str(v.s)
  ELSE FormatFloat(v.f)

isComputedField(field) ==
  \E i \in 1..Len(field) : field[i] \in {" ", "-", "/", "*", "+", "(", ")"}

formatField(field) ==
  IF isComputedField(field) THEN "(" \o Str(field) \o ")" ELSE Str(field)

LeafOpText(t) ==
  CASE t = "Eq" -> " = "
    [] t = "Neq" -> " != "
    [] t = "Gt" -> " > "
    [] t = "Lt" -> " < "
    [] t = "Gte" -> " >= "
    [] t = "Lte" -> " <= "
    [] t = "Like" -> " like "
    [] t = "NotLike" -> " not like "

\* String() of a leaf node
LeafString(e) ==
  IF e.t = "IsIpv4InSubnet"
    THEN "isIpv4InSubnet(" \o Str(e.Field) \o ", '" \o Str(e.Value.s) \o "')"
  ELSE IF e.t \in {"Like", "NotLike"}
    THEN Str(e.Field) \o LeafOpText(e.t) \o quote(e.Value)
  ELSE formatField(e.Field) \o LeafOpText(e.t) \o quote(e.Value)

RECURSIVE HasNil(_)
\* calling String() on e reaches a nil interface: the call panics
HasNil(e) ==
  IF e.t = "nil" THEN TRUE
  ELSE IF e.t \in {"And", "Or"}
    THEN \E i \in 1..Len(e.subs) : HasNil(e.subs[i])
  ELSE IF e.t = "Not" THEN HasNil(e.sub)
  ELSE FALSE

RECURSIVE ExprString(_)
\* Expr.String(), for an expression without nil
ExprString(e) ==
  IF e.t = "And"
    THEN JoinStr([i \in 1..Len(e.subs) |-> ExprString(e.subs[i])], " and ")
  ELSE IF e.t = "Or"
    THEN IF Len(e.subs) = 0 THEN ""
         ELSE "(" \o JoinStr([i \in 1..Len(e.subs) |-> ExprString(e.subs[i])],
                             " or ") \o ")"
  ELSE IF e.t = "Not" THEN "not " \o ExprString(e.sub)
  ELSE LeafString(e)

(***************************************************************************)
(* filter_lexer.go: the field registry and the per-class parsers.  A      *)
(* parser returns [expr, err, panic].                                      *)
(***************************************************************************)
Ok(e) == [expr |-> e, err |-> NoErr, panic |-> FALSE]
Fail(err) == [expr |-> Nil, err |-> err, panic |-> FALSE]
Panic == [expr |-> Nil, err |-> NoErr, panic |-> TRUE]

opLike == <<"l","i","k","e">>
opNotLike == <<"n","o","t"," ","l","i","k","e">>

IPFieldNames == {"srcaddr", "dstaddr", "pkt_srcaddr", "pkt_dstaddr"}
PortFieldNames == {"srcport", "dstport"}
NumericFieldNames == {"packets", "bytes", "start", "end", "duration"}

\* defaultFieldRegistry.GetFieldType: the class name, "" when not registered
GetFieldType(field) ==
  IF field \in IPFieldNames THEN "ip"
  ELSE IF field \in PortFieldNames THEN "port"
  ELSE IF field = "protocol" THEN "protocol"
  ELSE IF field \in NumericFieldNames THEN "numeric"
  ELSE ""

\* convertValue after strconv.Atoi failed: r is the result of
\* strconv.ParseFloat(op.value, 64)
FloatOrString(value, r) == IF r.ok THEN FloatOf(r.f) ELSE StrV(value)

\* OperatorParser.convertValue
convertValue(value) ==
  IF AtoiOk(value) THEN AtoiV(value) ELSE FloatOrString(value, ParseFloat(value))

\* the switch of OperatorParser.ParseOperator; converted stands for
\* op.convertValue(), which the comparison cases call
ParseOperatorSwitch(field, value, operator, converted) ==
  CASE operator = <<"=">> -> Ok(Leaf("Eq", field, converted))
    [] operator = <<"!", "=">> -> Ok(Leaf("Neq", field, converted))
    [] operator = <<">">> -> Ok(Leaf("Gt", field, converted))
    [] operator = <<"<">> -> Ok(Leaf("Lt", field, converted))
    [] operator = <<">", "=">> -> Ok(Leaf("Gte", field, converted))
    [] operator = <<"<", "=">> -> Ok(Leaf("Lte", field, converted))
    [] operator = opLike -> Ok(Leaf("Like", field, StrV(value)))
    [] operator = opNotLike -> Ok(Leaf("NotLike", field, StrV(value)))
    [] OTHER -> Fail(Err("unsupported operator", <<Str(operator)>>))

\* OperatorParser.ParseOperator
ParseOperator(field, value, operator) ==
  ParseOperatorSwitch(field, value, operator, convertValue(value))

\* ipPrefixPattern: ^\d{1,3}(\.\d{1,3}){0,3}$
ipPrefixPattern(value) ==
  LET parts == SplitOn(value, ".") IN
  /\ Len(parts) >= 1 /\ Len(parts) <= 4
  /\ \A i \in 1..Len(parts) :
       Len(parts[i]) >= 1 /\ Len(parts[i]) <= 3 /\ AllDigits(parts[i])

isValidIPPrefixAnyOctet(prefix) ==
  LET parts == SplitOn(prefix, ".") IN
  /\ Len(parts) <= MaxIPParts
  /\ \A i \in 1..Len(parts) : parts[i] # <<>> /\ AtoiOk(parts[i])

isValidIPPrefix(prefix) ==
  LET parts == SplitOn(prefix, ".") IN
  /\ Len(parts) <= MaxIPParts
  /\ \A i \in 1..Len(parts) :
       /\ parts[i] # <<>>
       /\ AtoiOk(parts[i])
       /\ AtoiBetween(parts[i], 0, MaxIPOctet)

parseIPFieldExpr(field, op, value) ==
  LET pos == op \in {<<"=">>, opLike} IN
  IF op \notin {<<"=">>, <<"!", "=">>, opLike, opNotLike}
    THEN Fail(Err("unsupported operator for IP field", <<Str(op)>>))
  ELSE IF Contains(value, <<"/">>)
    THEN IF ~ParsePrefixOk(value)
           THEN Fail(Err("invalid CIDR block", <<Str(value)>>))
         ELSE IF pos THEN Ok(Leaf("IsIpv4InSubnet", field, StrV(value)))
         ELSE Ok(NotP(Leaf("IsIpv4InSubnet", field, StrV(value))))
  ELSE IF ParseAddrOk(value)
    THEN IF pos THEN Ok(Leaf("Eq", field, StrV(value)))
         ELSE Ok(Leaf("Neq", field, StrV(value)))
  ELSE IF ipPrefixPattern(value) /\ isValidIPPrefix(value)
    THEN IF pos THEN Ok(Leaf("Like", field, StrV(value)))
         ELSE Ok(Leaf("NotLike", field, StrV(value)))
  ELSE Fail(Err("invalid IP, CIDR, or prefix value", <<Str(field), Str(value)>>))

PortValueValidatorNoUpperBound(value) ==
  IF ~AtoiOk(value) THEN Err("invalid port value", <<Str(value)>>)
  ELSE IF AtoiBelow(value, MinPort)
    THEN Err("port out of range", <<Str(AtoiText(value))>>)
  ELSE NoErr

\* the port FieldType's ValueValidator: the error, NoErr for nil
PortValueValidator(value) ==
  IF ~AtoiOk(value) THEN Err("invalid port value", <<Str(value)>>)
  ELSE IF ~AtoiBetween(value, MinPort, MaxPort)
    THEN Err("port out of range", <<Str(AtoiText(value))>>)
  ELSE NoErr

parsePortFieldExpr(field, op, value) ==
  IF PortValueValidator(value) # NoErr THEN Fail(PortValueValidator(value))
  ELSE ParseOperator(field, value, op)

parseNumericFieldExpr(field, op, value) ==
  IF AtoiOk(value) THEN ParseOperator(field, value, op)
  ELSE IF ParseFloatOk(value) THEN ParseOperator(field, value, op)
  ELSE Fail(Err("invalid numeric value", <<Str(field), Str(value)>>))

\* protocolMap, keyed by the lower-cased acronym; <<>> when absent
protocolMap(lower) ==
  CASE lower = <<"t","c","p">> -> <<"6">>
    [] lower = <<"u","d","p">> -> <<"1","7">>
    [] lower = <<"i","c","m","p">> -> <<"1">>
    [] lower = <<"i","c","m","p","v","6">> -> <<"5","8">>
    [] lower = <<"e","s","p">> -> <<"5","0">>
    [] lower = <<"a","h">> -> <<"5","1">>
    [] OTHER -> <<>>

\* the value handed to ParseOperator: the integer written by Itoa, the
\* code of the acronym protocolNum, or the value itself
ProtocolValue(value, protocolNum) ==
  IF AtoiOk(value) THEN AtoiText(value)
  ELSE IF protocolNum # <<>> THEN protocolNum
  ELSE value

parseProtocolFieldExpr(field, op, value) ==
  ParseOperator(field, ProtocolValue(value, protocolMap(ToLower(value))), op)

(***************************************************************************)
(* filter_lexer.go: the clause splitter and the recursive-descent parser.  *)
(***************************************************************************)
RECURSIVE SplitLoop(_, _, _, _)
RECURSIVE SplitStep(_, _, _, _, _)
\* the loop of splitOnLogical from the byte index st.i, low being
\* strings.ToLower(s).
\* 'for i := range s' visits the first byte of every rune.
SplitLoop(s, low, lowerOp, st) ==
  IF st.i >= Len(s) \/ st.i + Len(lowerOp) > Len(s)
    THEN [panic |-> FALSE,
          parts |-> Append(st.parts, TrimSpace(Slice(s, st.last, Len(s))))]
  ELSE SplitStep(s, low, lowerOp, st,
                 IF s[st.i + 1] = "(" THEN st.lvl + 1
                 ELSE IF s[st.i + 1] = ")" THEN st.lvl - 1
                 ELSE st.lvl)

\* the body of the loop at parenthesis level lvl.  The guard of the loop
\* compares with len(s) but the slice is taken from lowerS: when lowerS is
\* the shorter, lowerS[i:i+len(lowerOp)] is a slice-bounds panic, and so is
\* s[lastSplit:i] with lastSplit > i.
SplitStep(s, low, lowerOp, st, lvl) ==
  IF lvl = 0 /\ st.i + Len(lowerOp) > Len(low)
    THEN [panic |-> TRUE, parts |-> st.parts]
  ELSE IF lvl # 0 \/ Slice(low, st.i, st.i + Len(lowerOp)) # lowerOp
    THEN SplitLoop(s, low, lowerOp,
                   [st EXCEPT !.i = @ + RuneSize(s, @), !.lvl = lvl])
  ELSE IF st.last > st.i THEN [panic |-> TRUE, parts |-> st.parts]
  ELSE SplitLoop(s, low, lowerOp,
                 [i |-> st.i + RuneSize(s, st.i), lvl |-> lvl,
                  last |-> st.i + Len(lowerOp),
                  parts |-> Append(st.parts,
                                   TrimSpace(Slice(s, st.last, st.i)))])

\* splitOnLogical(s, op): [panic, parts]
splitOnLogical(s, op) ==
  SplitLoop(s, ToLower(s), <<" ">> \o op \o <<" ">>,
            [i |-> 0, lvl |-> 0, last |-> 0, parts |-> <<>>])

operators ==
  << <<"!", "=">>, opNotLike, <<">", "=">>, <<"<", "=">>, <<">">>, <<"<">>,
     <<"=">>, opLike >>

\* the clause cut at the byte index idx of the operator found in
\* strings.ToLower(clause), skip being the length of the operator text:
\* clause[:idx] and clause[idx+skip:] are slice-bounds panics when the lower
\* case is the longer and idx + skip lies beyond the end of clause
CutClause(clause, op, idx, skip) ==
  IF idx + skip > Len(clause)
    THEN [panic |-> TRUE, op |-> op, field |-> <<>>, value |-> <<>>]
  ELSE [panic |-> FALSE, op |-> op,
        field |-> TrimSpace(Slice(clause, 0, idx)),
        value |-> TrimSpace(Slice(clause, idx + skip, Len(clause)))]

SpacedOp(k) == <<" ">> \o operators[k] \o <<" ">>

\* the text searched for candidate k in the first loop (pad 2) and in the
\* second (pad 0)
OpText(k, pad) == IF pad = 2 THEN SpacedOp(k) ELSE operators[k]

\* the first of the candidates found, 0 for none
FirstOf(S) == IF S = {} THEN 0 ELSE CHOOSE k \in S : \A j \in S : k <= j

\* one loop over the candidates: the first one found in low, 0 for none
FirstFound(low, ops, pad) ==
  FirstOf({k \in 1..Len(ops) : Index(low, OpText(k, pad)) # -1})

\* the clause cut at candidate k
CutAt(clause, low, k, pad) ==
  CutClause(clause, AsciiLower(operators[k]), Index(low, OpText(k, pad)),
            Len(operators[k]) + pad)

\* the two loops over the candidates, spaced and bare being the candidates
\* they stop at
FindOperatorAt(clause, low, spaced, bare) ==
  IF spaced # 0 THEN CutAt(clause, low, spaced, 2)
  ELSE IF bare # 0 THEN CutAt(clause, low, bare, 0)
  ELSE [panic |-> FALSE, op |-> <<>>, field |-> <<>>, value |-> <<>>]

FindOperatorIn(clause, low) ==
  FindOperatorAt(clause, low, FirstFound(low, operators, 2),
                 FirstFound(low, operators, 0))

\* the operator search of parseClauseWithSchema: [panic, op, field, value],
\* op = <<>> when no candidate matches
FindOperator(clause) == FindOperatorIn(clause, ToLower(clause))

\* the port class: the registry's validator, then parsePortFieldExpr
ParsePort(field, op, value, invalid) ==
  IF invalid # NoErr THEN Fail(invalid) ELSE parsePortFieldExpr(field, op, value)

\* the clause once the operator is located: f is the search's result, value
\* the value without its quotes, class the registry's class of the field
ParseFound(clause, schema, f, value, class) ==
  IF f.panic THEN Panic
  ELSE IF f.op = <<>>
    THEN Fail(Err("invalid filter clause", <<Str(clause)>>))
  ELSE IF schema /\ GetComputedFieldExpression(Str(f.field),
                                               DefaultSchemaVersion) # ""
    THEN ParseOperator(<<"e","n","d"," ","-"," ","s","t","a","r","t">>,
                       value, f.op)
  ELSE IF class = "ip" THEN parseIPFieldExpr(f.field, f.op, value)
  ELSE IF class = "port" THEN ParsePort(f.field, f.op, value,
                                        PortValueValidator(value))
  ELSE IF class = "protocol"
    THEN parseProtocolFieldExpr(f.field, f.op, value)
  ELSE IF class = "numeric"
    THEN parseNumericFieldExpr(f.field, f.op, value)
  ELSE IF f.op = <<"=">> THEN Ok(Leaf("Eq", f.field, StrV(value)))
  ELSE IF f.op = <<"!", "=">> THEN Ok(Leaf("Neq", f.field, StrV(value)))
  ELSE IF f.op = opLike THEN Ok(Leaf("Like", f.field, StrV(value)))
  ELSE IF f.op = opNotLike THEN Ok(Leaf("NotLike", f.field, StrV(value)))
  ELSE Fail(Err("unsupported operator for non-numeric field",
                <<Str(f.op)>>))

ParseLocated(clause, schema, f) ==
  ParseFound(clause, schema, f, Trim(f.value, {"'", "\""}),
             GetFieldType(Str(f.field)))

\* parseClauseWithSchema; schema is FALSE for a nil Schema
parseClauseWithSchema(clause, schema) ==
  ParseLocated(clause, schema, FindOperator(clause))

\* the result of parsing the operands in order: the first error or panic,
\* else the node built from all of them
Combine(results, node) ==
  LET bad == {i \in 1..Len(results) :
                results[i].panic \/ results[i].err # NoErr}
  IN IF bad # {}
       THEN results[CHOOSE i \in bad : \A j \in bad : i <= j]
     ELSE Ok([t |-> node, ptr |-> TRUE,
              subs |-> [i \in 1..Len(results) |-> results[i].expr]])

RECURSIVE ParseFilterWithSchema(_, _)
RECURSIVE ParseTrimmed(_, _)
RECURSIVE parseOrWithSchema(_, _)
RECURSIVE ParseOrParts(_, _, _)
RECURSIVE parseAndWithSchema(_, _)
RECURSIVE ParseAndParts(_, _, _)
RECURSIVE parsePrimaryWithSchema(_, _)
RECURSIVE ParsePrimaryTrimmed(_, _)

ParseFilterWithSchema(s, schema) == ParseTrimmed(TrimSpace(s), schema)

\* ParseFilterWithSchema after s = strings.TrimSpace(s)
ParseTrimmed(s, schema) ==
  IF s = <<>> THEN Ok(Nil) ELSE parseOrWithSchema(s, schema)

parseOrWithSchema(s, schema) ==
  ParseOrParts(s, schema, splitOnLogical(s, <<"o", "r">>))

\* parseOrWithSchema with the result sp of splitOnLogical
ParseOrParts(s, schema, sp) ==
  IF sp.panic THEN Panic
  ELSE IF Len(sp.parts) = 1 THEN parseAndWithSchema(s, schema)
  ELSE Combine([i \in 1..Len(sp.parts) |->
                  parseAndWithSchema(sp.parts[i], schema)], "Or")

parseAndWithSchema(s, schema) ==
  ParseAndParts(s, schema, splitOnLogical(s, <<"a", "n", "d">>))

\* parseAndWithSchema with the result sp of splitOnLogical
ParseAndParts(s, schema, sp) ==
  IF sp.panic THEN Panic
  ELSE IF Len(sp.parts) = 1 THEN parsePrimaryWithSchema(s, schema)
  ELSE Combine([i \in 1..Len(sp.parts) |->
                  parsePrimaryWithSchema(sp.parts[i], schema)], "And")

parsePrimaryWithSchema(s, schema) == ParsePrimaryTrimmed(TrimSpace(s), schema)

\* parsePrimaryWithSchema after s = strings.TrimSpace(s)
ParsePrimaryTrimmed(s, schema) ==
  IF HasPrefix(s, <<"(">>) /\ HasSuffix(s, <<")">>)
    THEN ParseFilterWithSchema(Slice(s, 1, Len(s) - 1), schema)
  ELSE parseClauseWithSchema(s, schema)

ParseFilter(s) == ParseFilterWithSchema(s, FALSE)

RECURSIVE validate(_, _)
\* the closure validate of ValidateFilter: the error, NoErr for nil
validate(e, version) ==
  IF e.t \in {"And", "Or"} /\ e.ptr
    THEN LET errs == [i \in 1..Len(e.subs) |-> validate(e.subs[i], version)]
             bad == {i \in 1..Len(errs) : errs[i] # NoErr}
         IN IF bad = {} THEN NoErr
            ELSE errs[CHOOSE i \in bad : \A j \in bad : i <= j]
  ELSE IF e.t = "Not" /\ e.ptr THEN validate(e.sub, version)
  ELSE IF e.t \in LeafTypes THEN ValidateField(Str(e.Field), version)
  ELSE Err("unsupported expression type for validation", <<e.t>>)

ValidateFilter(expr, version) ==
  IF expr = Nil THEN NoErr ELSE validate(expr, version)

(***************************************************************************)
(* The Builder: verbs, AggregationField, the options and rendering.  A    *)
(* Builder is the record of its fields; field names are TLA+ strings.     *)
(* An option returns [b, err]: the Builder as the option leaves it and    *)
(* the error (NoErr for nil).                                             *)
(***************************************************************************)
VerbRaw == "VerbRaw"
VerbCount == "VerbCount"
VerbSum == "VerbSum"
VerbAvg == "VerbAvg"
VerbMin == "VerbMin"
VerbMax == "VerbMax"
Verbs == {VerbRaw, VerbCount, VerbSum, VerbAvg, VerbMin, VerbMax}

\* the map verbToStat; a missing key reads as ""
verbToStat(v) ==
  CASE v = VerbCount -> "count"
    [] v = VerbSum -> "sum"
    [] v = VerbAvg -> "avg"
    [] v = VerbMin -> "min"
    [] v = VerbMax -> "max"
    [] OTHER -> ""

Agg(field, verb) == [Field |-> field, Verb |-> verb]

getAliasNoFlows(af) == af.Field \o "_" \o verbToStat(af.Verb)

\* AggregationField.getAlias
getAlias(af) ==
  IF af.Field = "*" /\ af.Verb = VerbCount THEN "flows"
  ELSE af.Field \o "_" \o verbToStat(af.Verb)

\* the Builder that New makes before it applies the options
NewBuilder ==
  [aggregations |-> <<Agg("*", VerbCount)>>,
   fields |-> <<>>,
   pendingFields |-> <<>>,
   groupBy |-> <<>>,
   limit |-> DefaultLimit,
   filters |-> <<>>,
   version |-> GetDefaultVersion]

\* the first error of validating the fields of a list in order
FirstErr(errs) ==
  LET bad == {i \in 1..Len(errs) : errs[i] # NoErr} IN
  IF bad = {} THEN NoErr
  ELSE errs[CHOOSE i \in bad : \A j \in bad : i <= j]

Wrap(kind, field, err) ==
  IF err = NoErr THEN NoErr ELSE Err(kind, <<field>> \o <<err.kind>> \o err.args)

handleRawVerb(b) ==
  IF Len(b.pendingFields) > 0
    THEN [b EXCEPT !.aggregations = <<>>, !.fields = b.pendingFields,
                   !.pendingFields = <<>>]
  ELSE IF Len(b.fields) = 0
    THEN [b EXCEPT !.aggregations = <<>>, !.fields = <<"*">>]
  ELSE [b EXCEPT !.aggregations = <<>>]

handleAggregationVerb(b, v) ==
  IF Len(b.aggregations) = 0
    THEN [b EXCEPT !.aggregations = <<Agg("*", v)>>]
  ELSE [b EXCEPT !.aggregations[1].Verb = v]

WithVerb(b, v) ==
  [b |-> IF v = VerbRaw THEN handleRawVerb(b) ELSE handleAggregationVerb(b, v),
   err |-> NoErr]

WithFields(b, fields) ==
  LET err == FirstErr([i \in 1..Len(fields) |->
                 Wrap("invalid field", fields[i],
                      ValidateField(fields[i], b.version))])
  IN IF err # NoErr THEN [b |-> b, err |-> err]
     ELSE IF Len(b.aggregations) = 0
       THEN [b |-> [b EXCEPT !.fields = fields], err |-> NoErr]
     ELSE IF Len(fields) > 0
       THEN [b |-> [b EXCEPT !.pendingFields = fields,
                             !.aggregations[1].Field = fields[1]],
             err |-> NoErr]
     ELSE [b |-> [b EXCEPT !.pendingFields = fields], err |-> NoErr]

\* the error of one aggregation in WithAggregations' loop
AggErr(b, agg) ==
  IF ValidateField(agg.Field, b.version) # NoErr
    THEN Wrap("invalid field", agg.Field, ValidateField(agg.Field, b.version))
  ELSE IF agg.Verb # VerbCount /\ ~IsNumeric(agg.Field)
    THEN Err("field must be numeric for verb", <<agg.Field, agg.Verb>>)
  ELSE NoErr

WithAggregationsWithoutNumericGuard(b, aggregations) ==
  LET err == FirstErr([i \in 1..Len(aggregations) |->
                 Wrap("invalid field", aggregations[i].Field,
                      ValidateField(aggregations[i].Field, b.version))])
  IN IF err # NoErr THEN [b |-> b, err |-> err]
     ELSE [b |-> [b EXCEPT !.aggregations = aggregations], err |-> NoErr]

WithAggregations(b, aggregations) ==
  LET err == FirstErr([i \in 1..Len(aggregations) |->
                         AggErr(b, aggregations[i])])
  IN IF err # NoErr THEN [b |-> b, err |-> err]
     ELSE [b |-> [b EXCEPT !.aggregations = aggregations], err |-> NoErr]

WithGroupBy(b, fields) ==
  LET err == FirstErr([i \in 1..Len(fields) |->
                 Wrap("invalid group by field", fields[i],
                      ValidateField(fields[i], b.version))])
  IN IF err # NoErr THEN [b |-> b, err |-> err]
     ELSE [b |-> [b EXCEPT !.groupBy = fields], err |-> NoErr]

WithLimit(b, n) ==
  IF n < 0 THEN [b |-> b, err |-> Err("limit must be non-negative", <<>>)]
  ELSE [b |-> [b EXCEPT !.limit = n], err |-> NoErr]

WithFilter(b, e) ==
  IF ValidateFilter(e, b.version) # NoErr
    THEN [b |-> b, err |-> ValidateFilter(e, b.version)]
  ELSE [b |-> [b EXCEPT !.filters = Append(b.filters, e)], err |-> NoErr]

WithVersion(b, v) ==
  IF ValidateVersion(v) # NoErr
    THEN [b |-> b,
          err |-> Wrap("invalid version", IntToStr(v), ValidateVersion(v))]
  ELSE [b |-> [b EXCEPT !.version = v], err |-> NoErr]

(***************************************************************************)
(* Builder.String.  A clause is the pair <<keyword, rest>> of the two     *)
(* strings the code concatenates (the parse pattern is a clause of one     *)
(* string); Text is the Go string.                                         *)
(***************************************************************************)
Text(clause) == JoinStr(clause, "")

\* a field in group-by or display position
FieldExpression(field, version) ==
  IF GetComputedFieldExpression(field, version) # ""
    THEN GetComputedFieldExpression(field, version) \o " as " \o field
  ELSE field

buildGroupByExpressions(b) ==
  JoinStr([i \in 1..Len(b.groupBy) |->
             FieldExpression(b.groupBy[i], b.version)], ", ")

buildDisplayClause(b) ==
  IF Len(b.fields) = 0 THEN <<>>
  ELSE <<"display ",
         JoinStr([i \in 1..Len(b.fields) |->
                    FieldExpression(b.fields[i], b.version)], ", ")>>

\* one aggregation of the stats clause
StatsItem(b, agg) ==
  LET computedExpr == GetComputedFieldExpression(agg.Field, b.version) IN
  verbToStat(agg.Verb) \o "("
    \o (IF computedExpr # "" THEN computedExpr ELSE agg.Field)
    \o ") as " \o getAlias(agg)

SortByLastAggregation(b) ==
  <<"sort ", getAlias(b.aggregations[Len(b.aggregations)]) \o " desc">>

\* the sort clause of buildStatsAndSortClauses
SortClause(b) == <<"sort ", getAlias(b.aggregations[1]) \o " desc">>

\* buildStatsAndSortClauses, called with aggregations present: [stats, sort]
buildStatsAndSortClauses(b) ==
  LET items == JoinStr([i \in 1..Len(b.aggregations) |->
                          StatsItem(b, b.aggregations[i])], ", ")
  IN [stats |-> <<"stats ",
                  IF Len(b.groupBy) > 0
                    THEN items \o " by " \o buildGroupByExpressions(b)
                    ELSE items>>,
      sort |-> SortClause(b)]

\* the clauses String appends for the aggregations or the raw fields
BodyClauses(b) ==
  IF Len(b.aggregations) > 0
    THEN <<buildStatsAndSortClauses(b).stats, buildStatsAndSortClauses(b).sort>>
  ELSE IF Len(b.fields) > 0 /\ b.fields[1] # "*" /\ buildDisplayClause(b) # <<>>
    THEN <<buildDisplayClause(b)>>
  ELSE <<>>

\* Builder.String: [panic, parts, text]
String(b) ==
  IF GetParsePattern(b.version).err # NoErr
    THEN [panic |-> FALSE, parts |-> <<>>, text |-> ""]
  ELSE IF \E i \in 1..Len(b.filters) : HasNil(b.filters[i])
    THEN [panic |-> TRUE, parts |-> <<>>, text |-> ""]
  ELSE
    LET parts ==
          <<<<GetParsePattern(b.version).pattern>>>>
          \o (IF Len(b.filters) > 0
                THEN <<<<"filter ", ExprString(AndVal(b.filters))>>>>
                ELSE <<>>)
          \o BodyClauses(b)
          \o (IF b.limit > 0 THEN <<<<"limit ", IntToStr(b.limit)>>>> ELSE <<>>)
    IN [panic |-> FALSE, parts |-> parts,
        text |-> JoinStr([i \in 1..Len(parts) |-> Text(parts[i])], " | ")]

(***************************************************************************)
(* The inputs the options are drawn from.                                  *)
(***************************************************************************)
SeqsUpTo(S, n) == UNION {[1..k -> S] : k \in 0..n}

\* the wildcard, the computed field, a version-2 field that is not numeric
\* and a field of versions 3 and 5 only (so invalid under version 2)
FieldVocab == {"*", "duration", "srcaddr", "vpc_id"}
FieldLists == SeqsUpTo(FieldVocab, MaxFields)

AggVocab ==
  {Agg(f, VerbCount) : f \in {"*", "srcaddr", "vpc_id"}}
  \cup {Agg(f, VerbSum) : f \in {"duration", "srcaddr"}}
AggLists == SeqsUpTo(AggVocab, MaxAggs)

VerbInputs == {VerbRaw, VerbCount, VerbSum}
VersionInputs == {2, 3, 4, 5}
LimitInputs == {-1, 0, 10}

\* filter texts handed to ParseFilterWithSchema, and expressions built
\* programmatically
FilterTexts ==
  { <<>>,
    <<" ", " ">>,
    <<"s","r","c","a","d","d","r"," ","="," ","1","0",".","0",".","0",".","1">>,
    <<"v","p","c","_","i","d","=","v","-","1"," ","o","r"," ",
      "d","u","r","a","t","i","o","n"," ",">"," ","5">>,
    <<"a"," ","o","r"," ","o","r"," ","b">> }

\* what the parser returns for each text
ParsedFilters == {ParseFilterWithSchema(t, TRUE) : t \in FilterTexts}

ProgFilters ==
  { LeafVal("Eq", <<"v","p","c","_","i","d">>, StrV(<<"v","-","1">>)),
    LeafVal("Gt", <<"d","u","r","a","t","i","o","n">>, IntV(5)),
    LeafVal("Eq", <<"*">>, IntV(1)),
    AndVal(<<Leaf("Eq", <<"s","r","c","a","d","d","r">>, StrV(<<"x">>))>>) }

(***************************************************************************)
(* The state: one call of New (the Builder b under construction, the      *)
(* status of the call and what it returned), the result of rendering the  *)
(* returned Builder, and one call of the filter parser.                   *)
(***************************************************************************)
VARIABLES
  b,        \* the Builder
  st,       \* "applying", "returned", "failed", "rendered", "crashed",
            \* "parsing", "parsed", "clause", "clauseParsed",
            \* "validating", "validated"
  ret,      \* what New returned: [builder (non-nil?), err]
  nopts,    \* options applied so far
  last,     \* the option applied last: [op, args, err]
  hist,     \* history: [failed, ever, fields, raw]
  out,      \* the result of String()
  ptext,    \* the text given to the parser, as its sequence of tokens
  pwant,    \* the tree the grammar derives for ptext
  pres,     \* the parser's result
  two,      \* two Builders made from one slice of aggregations:
            \* [aggs, bs, who]
  run,      \* one call of Runner.Run and its context
  cache,    \* the ENI bucket of the Cache and one call of RefreshENIs
  ia        \* an IPAnnotator and the calls made on it

vars ==
  <<b, st, ret, nopts, last, hist, out, ptext, pwant, pres, two, run, cache,
    ia>>

NoRet == [builder |-> FALSE, err |-> NoErr]
NoOut == [panic |-> FALSE, parts |-> <<>>, text |-> ""]
NoLast == [op |-> "none", args |-> <<>>, err |-> NoErr]
NoParse == [expr |-> Nil, err |-> NoErr, panic |-> FALSE]
NoTwo == [aggs |-> <<>>, bs |-> <<>>, who |-> 0]
NoRun == [pc |-> "none"]
NoCache == [pc |-> "none"]
NoAnnotator == [pc |-> "none"]

Init ==
  /\ b = NewBuilder
  /\ st = "applying"
  /\ ret = NoRet
  /\ nopts = 0
  /\ last = NoLast
  /\ hist = [failed |-> 0, ever |-> FALSE, fields |-> <<>>, raw |-> FALSE]
  /\ out = NoOut
  /\ ptext = <<>>
  /\ pwant = Nil
  /\ pres = NoParse
  /\ two = NoTwo
  /\ run = NoRun
  /\ cache = NoCache
  /\ ia = NoAnnotator

NewLoopIgnoresError(r) == [st |-> "applying", ret |-> NoRet]

\* one iteration of New's loop on the result r of the option
NewLoop(r) ==
  IF r.err # NoErr
    THEN [st |-> "failed", ret |-> [builder |-> FALSE, err |-> r.err]]
  ELSE [st |-> "applying", ret |-> NoRet]

\* New applies the next option of its list: op(args), with result r
Apply(op, args, r) ==
  /\ st = "applying"
  /\ nopts < MaxOpts
  /\ b' = r.b
  /\ st' = NewLoop(r).st
  /\ ret' = NewLoop(r).ret
  /\ nopts' = nopts + 1
  /\ last' = [op |-> op, args |-> args, err |-> r.err]
  /\ hist' =
       [failed |-> hist.failed + (IF r.err # NoErr THEN 1 ELSE 0),
        ever |-> hist.ever \/ (op = "WithFields" /\ r.err = NoErr),
        fields |-> IF op = "WithFields" /\ r.err = NoErr
                     THEN args ELSE hist.fields,
        raw |-> IF r.err # NoErr THEN hist.raw
                ELSE IF op = "WithVerb" THEN args = VerbRaw
                ELSE IF op = "WithAggregations" THEN FALSE
                ELSE hist.raw]
  /\ UNCHANGED <<cache, ia, two, run, out, ptext, pwant, pres>>

OptWithVerb == \E v \in VerbInputs : Apply("WithVerb", v, WithVerb(b, v))

OptWithFields ==
  \E fs \in FieldLists : Apply("WithFields", fs, WithFields(b, fs))

OptWithAggregations ==
  \E as \in AggLists : Apply("WithAggregations", as, WithAggregations(b, as))

OptWithGroupBy ==
  \E fs \in FieldLists : Apply("WithGroupBy", fs, WithGroupBy(b, fs))

OptWithLimit == \E n \in LimitInputs : Apply("WithLimit", n, WithLimit(b, n))

OptWithVersion ==
  \E v \in VersionInputs : Apply("WithVersion", v, WithVersion(b, v))

\* WithFilter on an expression built by the caller
OptWithFilter ==
  \E e \in ProgFilters : Apply("WithFilter", e, WithFilter(b, e))

\* WithFilter on what ParseFilterWithSchema returned without error; a panic
\* of the parser ends the program
OptParseAndFilter ==
  \E r \in ParsedFilters :
    IF r.panic
      THEN /\ st = "applying"
           /\ st' = "crashed"
           /\ UNCHANGED <<cache, ia, two, run, b, ret, nopts, last, hist, out, ptext, pwant, pres>>
    ELSE /\ r.err = NoErr
         /\ Apply("WithFilter", r.expr, WithFilter(b, r.expr))

\* New has applied every option of its list and returns the Builder
NewReturn ==
  /\ st = "applying"
  /\ st' = "returned"
  /\ ret' = [builder |-> TRUE, err |-> NoErr]
  /\ UNCHANGED <<cache, ia, two, run, b, nopts, last, hist, out, ptext, pwant, pres>>

\* the caller renders the Builder that New returned
Render ==
  /\ st = "returned"
  /\ st' = "rendered"
  /\ out' = String(b)
  /\ UNCHANGED <<cache, ia, two, run, b, ret, nopts, last, hist, ptext, pwant, pres>>

Next ==
  \/ OptWithVerb
  \/ OptWithFields
  \/ OptWithAggregations
  \/ OptWithGroupBy
  \/ OptWithLimit
  \/ OptWithVersion
  \/ OptWithFilter
  \/ OptParseAndFilter
  \/ NewReturn
  \/ Render

Spec == Init /\ [][Next]_vars

(***************************************************************************)
(* The parser on the texts of the grammar                                  *)
(*   Or := And ('or' And)*,  And := Primary ('and' Primary)*,              *)
(*   Primary := '(' Or ')' | Clause.                                       *)
(* A text is a sequence of tokens; the Go string is their concatenation.   *)
(* OrL(n) derives every text of n tokens together with the trees of its    *)
(* operands.                                                               *)
(***************************************************************************)
RECURSIVE Flatten(_)
Flatten(toks) == IF Len(toks) = 0 THEN <<>> ELSE Head(toks) \o Flatten(Tail(toks))

ClauseTokens == { <<"a","=","1">>, <<"b"," ","!","="," ","2">> }
OrTokens == { <<" ","o","r"," ">>, <<" ","O","r"," ">> }
AndTokens == { <<" ","a","n","d"," ">>, <<" ","A","N","D"," ">> }

\* the node of a level with the operand trees kids: no wrapper for one
MkNode(t, kids) ==
  IF Len(kids) = 1 THEN kids[1] ELSE [t |-> t, ptr |-> TRUE, subs |-> kids]

RECURSIVE PrimC(_)
RECURSIVE AndL(_)
RECURSIVE OrL(_)

\* Primary of n tokens: [toks, tree]
PrimC(n) ==
  IF n = 1
    THEN {[toks |-> <<c>>, tree |-> parseClauseWithSchema(c, FALSE).expr] :
            c \in ClauseTokens}
  ELSE IF n >= 3
    THEN {[toks |-> <<<<"(">>>> \o o.toks \o <<<<")">>>>,
           tree |-> MkNode("Or", o.kids)] : o \in OrL(n - 2)}
  ELSE {}

\* And of n tokens: [toks, kids], kids the trees of its primaries
AndL(n) ==
  {[toks |-> p.toks, kids |-> <<p.tree>>] : p \in PrimC(n)}
  \cup UNION {
         {[toks |-> x[1].toks \o <<x[2]>> \o x[3].toks,
           kids |-> <<x[1].tree>> \o x[3].kids] :
            x \in PrimC(k) \X AndTokens \X AndL(n - 1 - k)} :
         k \in 1..(n - 2)}

\* Or of n tokens: [toks, kids], kids the trees of its And operands
OrL(n) ==
  IF n <= 0 THEN {}
  ELSE {[toks |-> a.toks, kids |-> <<MkNode("And", a.kids)>>] : a \in AndL(n)}
       \cup UNION {
         {[toks |-> x[1].toks \o <<x[2]>> \o x[3].toks,
           kids |-> <<MkNode("And", x[1].kids)>> \o x[3].kids] :
            x \in AndL(k) \X OrTokens \X OrL(n - 1 - k)} :
         k \in 1..(n - 2)}

\* a clause whose value is U+212A (KELVIN SIGN): three bytes, and one byte
\* (k) in lower case
KelvinClause == <<"a", "=">> \o KelvinSign

\* 'a=<U+212A> or C' and 'a=<U+212A> and C' for the clauses C, with the trees
\* of their derivations
KelvinCases ==
  {[toks |-> <<KelvinClause, x[1], x[2]>>,
    tree |-> MkNode(IF x[1] \in OrTokens THEN "Or" ELSE "And",
                    <<parseClauseWithSchema(KelvinClause, FALSE).expr,
                      parseClauseWithSchema(x[2], FALSE).expr>>)] :
     x \in (OrTokens \cup AndTokens) \X ClauseTokens}

GrammarCases ==
  UNION {{[toks |-> o.toks, tree |-> MkNode("Or", o.kids)] : o \in OrL(n)} :
           n \in 1..MaxTokens}
  \cup KelvinCases

InitParse ==
  /\ b = NewBuilder
  /\ st = "parsing"
  /\ ret = NoRet
  /\ nopts = 0
  /\ last = NoLast
  /\ hist = [failed |-> 0, ever |-> FALSE, fields |-> <<>>, raw |-> FALSE]
  /\ out = NoOut
  /\ \E c \in GrammarCases : ptext = c.toks /\ pwant = c.tree
  /\ pres = NoParse
  /\ two = NoTwo
  /\ run = NoRun
  /\ cache = NoCache
  /\ ia = NoAnnotator

\* ParseFilter (a nil Schema) or ParseFilterWithSchema on the text
DoParse ==
  /\ st = "parsing"
  /\ \E schema \in BOOLEAN :
       pres' = ParseFilterWithSchema(Flatten(ptext), schema)
  /\ st' = "parsed"
  /\ UNCHANGED <<cache, ia, two, run, b, ret, nopts, last, hist, out, ptext, pwant>>

NextParse == DoParse

SpecParse == InitParse /\ [][NextParse]_vars

(***************************************************************************)
(* Properties.                                                             *)
(***************************************************************************)
\* the keyword a clause starts with; the parse pattern is the clause of one
\* string
Kind(clause) == IF Len(clause) = 1 THEN "parse" ELSE clause[1]

Kinds(parts) == [i \in 1..Len(parts) |-> Kind(parts[i])]

Rendered == st = "rendered"

RECURSIVE ExprFields(_)
\* the field names of the leaves of an expression
ExprFields(e) ==
  IF e.t \in {"And", "Or"}
    THEN UNION {ExprFields(e.subs[i]) : i \in 1..Len(e.subs)}
  ELSE IF e.t = "Not" THEN ExprFields(e.sub)
  ELSE IF e.t \in LeafTypes THEN {Str(e.Field)}
  ELSE {}

\* the field names an option was given
ArgFields(l) ==
  IF l.op \in {"WithFields", "WithGroupBy"}
    THEN {l.args[i] : i \in 1..Len(l.args)}
  ELSE IF l.op = "WithAggregations"
    THEN {l.args[i].Field : i \in 1..Len(l.args)}
  ELSE IF l.op = "WithFilter" THEN ExprFields(l.args)
  ELSE {}

FieldOptions == {"WithFields", "WithGroupBy", "WithAggregations", "WithFilter"}

\* C1: for every Builder that New returns, String() is the ' | '-join of:
\* the parse pattern of the Builder's version (so never empty); a filter
\* clause iff a filter was registered; a stats clause immediately followed
\* by a sort clause, or (no aggregations, first field not '*') one display
\* clause, never both; 'limit <n>' last iff limit > 0.
C1_ClauseOrder ==
  Rendered =>
    /\ ~out.panic
    /\ out.text # ""
    /\ out.text = JoinStr([i \in 1..Len(out.parts) |-> Text(out.parts[i])],
                          " | ")
    /\ out.parts[1] =
         <<IF b.version = 2 THEN ParsePatternV2
           ELSE IF b.version = 3 THEN ParsePatternV3 ELSE ParsePatternV5>>
    /\ Kinds(out.parts) =
         <<"parse">>
         \o (IF Len(b.filters) > 0 THEN <<"filter ">> ELSE <<>>)
         \o (IF Len(b.aggregations) > 0 THEN <<"stats ", "sort ">>
             ELSE IF Len(b.fields) > 0 /\ b.fields[1] # "*"
               THEN <<"display ">>
             ELSE <<>>)
         \o (IF b.limit > 0 THEN <<"limit ">> ELSE <<>>)
    /\ (b.limit > 0 =>
          out.parts[Len(out.parts)] = <<"limit ", IntToStr(b.limit)>>)

\* C1, for the Builders whose rendering returns: the same order of clauses
C1_ClauseOrderUnlessPanic == (Rendered /\ out.panic) \/ C1_ClauseOrder

\* C2: after successfully applied options every aggregation of the Builder
\* whose verb is not Count has a numeric field
C2_NonCountIsNumeric ==
  st \in {"applying", "returned", "rendered"} =>
    \A i \in 1..Len(b.aggregations) :
      b.aggregations[i].Verb # VerbCount => IsNumeric(b.aggregations[i].Field)

\* C3: an option naming vpc_id (a field of versions 3 and 5 only) is rejected
\* by WithFields, WithGroupBy, WithAggregations and WithFilter under version 2
\* and, when it names no other field than '*' and 'duration' and counts,
\* accepted under versions 3 and 5; an option naming only '*' and 'duration'
\* is accepted under every supported version
C3_VersionGating ==
  (last.op \in FieldOptions /\ st # "crashed") =>
    LET fs == ArgFields(last)
        plain ==
          /\ fs \subseteq {"vpc_id", "*", "duration"}
          /\ last.op = "WithAggregations" =>
               \A i \in 1..Len(last.args) :
                 last.args[i].Verb = VerbCount \/ last.args[i].Field = "duration"
          /\ last.op = "WithFilter" => last.args.t \in LeafTypes
    IN /\ ("vpc_id" \in fs /\ b.version = 2) => last.err # NoErr
       /\ ("vpc_id" \in fs /\ b.version \in {3, 5} /\ plain) => last.err = NoErr
       /\ (fs # {} /\ fs \subseteq {"*", "duration"} /\ plain) => last.err = NoErr

C3_Witness ==
  /\ last.op = "WithFilter"
  /\ ArgFields(last) = {"vpc_id"}
  /\ b.version = 5
  /\ last.err = NoErr

\* C4: New stops at the first option that fails and returns its error with a
\* nil Builder; a Builder is returned only when no option failed
C4_FirstErrorAborts ==
  /\ hist.failed <= 1
  /\ st \in {"returned", "rendered"} =>
       hist.failed = 0 /\ ret.builder /\ ret.err = NoErr
  /\ st = "failed" =>
       /\ hist.failed = 1
       /\ ~ret.builder
       /\ last.err # NoErr
       /\ ret.err = last.err
  /\ (st = "applying" /\ nopts > 0) => last.err = NoErr /\ hist.failed = 0

C4_Witness == st = "failed" /\ nopts = 2 /\ ~ret.builder /\ ret.err # NoErr

\* C5: no sequence of ParseFilter / ParseFilterWithSchema, WithFilter, New
\* and String panics
C5_NoPanic == st # "crashed" /\ ~out.panic

\* C6: WithAggregations(a1..an) fails iff some ai has a field invalid for the
\* version or a verb other than Count with a non-numeric field; the error
\* names the first such field (and the verb, in the numeric case); otherwise
\* it installs exactly a1..an
C6_AggregationsAllOrNothing ==
  (last.op = "WithAggregations" /\ st # "crashed") =>
    LET as == last.args
        valid(f) == f \in {"*", "duration"}
                    \/ f \in (IF b.version = 2 THEN FieldsV2 ELSE FieldsV3)
        numeric(f) == f \in {"srcport", "dstport", "protocol", "packets",
                             "bytes", "start", "end", "duration"}
        bad == {i \in 1..Len(as) :
                  ~valid(as[i].Field)
                  \/ (as[i].Verb # VerbCount /\ ~numeric(as[i].Field))}
        k == CHOOSE i \in bad : \A j \in bad : i <= j
    IN IF bad = {}
         THEN last.err = NoErr /\ b.aggregations = as
       ELSE /\ last.err # NoErr
            /\ st = "failed"
            /\ last.err.args[1] = as[k].Field
            /\ IF valid(as[k].Field)
                 THEN /\ last.err.kind = "field must be numeric for verb"
                      /\ last.err.args[2] = as[k].Verb
                 ELSE last.err.kind = "invalid field"

C6_Witness ==
  /\ last.op = "WithAggregations"
  /\ Len(last.args) = 2
  /\ last.args[1] = Agg("srcaddr", VerbCount)
  /\ last.args[2] = Agg("srcaddr", VerbSum)
  /\ last.err = Err("field must be numeric for verb", <<"srcaddr", VerbSum>>)

\* the alias of an aggregation, as the specification defines it
SpecAlias(a) ==
  IF a = Agg("*", VerbCount) THEN "flows"
  ELSE a.Field \o "_"
       \o (CASE a.Verb = VerbCount -> "count" [] a.Verb = VerbSum -> "sum"
             [] a.Verb = VerbAvg -> "avg" [] a.Verb = VerbMin -> "min"
             [] a.Verb = VerbMax -> "max" [] OTHER -> "")

\* C7: a stats clause is immediately followed by exactly one clause
\* 'sort <alias of the first aggregation> desc'; no sort clause appears
\* without a stats clause before it
C7_SortFollowsStats ==
  (Rendered /\ ~out.panic) =>
    LET ks == Kinds(out.parts) IN
    /\ \A i \in 1..Len(ks) :
         ks[i] = "stats " =>
           /\ i < Len(ks)
           /\ out.parts[i + 1] =
                <<"sort ", SpecAlias(b.aggregations[1]) \o " desc">>
    /\ \A i \in 1..Len(ks) :
         ks[i] = "sort " => i > 1 /\ ks[i - 1] = "stats "
    /\ Cardinality({i \in 1..Len(ks) : ks[i] = "sort "})
         = Cardinality({i \in 1..Len(ks) : ks[i] = "stats "})
    /\ Cardinality({i \in 1..Len(ks) : ks[i] = "stats "}) <= 1

C7_Witness ==
  /\ Rendered /\ ~out.panic
  /\ Len(b.aggregations) = 2
  /\ b.aggregations[1].Verb # b.aggregations[2].Verb
  /\ Len(b.groupBy) > 0
  /\ \E i \in 1..Len(out.parts) : Kind(out.parts[i]) = "sort "

\* the fields a raw query displays according to the specification: those of
\* the most recent WithFields, '*' if there was none
SpecRawFields == IF hist.ever THEN hist.fields ELSE <<"*">>

\* C8: after WithVerb(Raw) the Builder has no aggregations and its display
\* fields are those of the most recent WithFields ('*' if never applied),
\* whether WithFields came before or after; the rendered query has no stats
\* and no sort clause and has a display clause listing those fields exactly
\* when the first field is not '*'
C8_RawAdoptsFields ==
  (hist.raw /\ st \in {"applying", "returned", "rendered"}) =>
    /\ b.aggregations = <<>>
    /\ b.fields = SpecRawFields
    /\ (Rendered /\ ~out.panic) =>
         LET ks == Kinds(out.parts) IN
         /\ \A i \in 1..Len(ks) : ks[i] \notin {"stats ", "sort "}
         /\ (\E i \in 1..Len(ks) : ks[i] = "display ")
              <=> (Len(SpecRawFields) > 0 /\ SpecRawFields[1] # "*")

\* a field in group-by or display position, as the specification defines it
SpecFieldExpr(f) == IF f = "duration" THEN "end - start as duration" ELSE f

\* an aggregation of a stats clause, as the specification defines it
SpecStatsItem(a) ==
  (CASE a.Verb = VerbCount -> "count" [] a.Verb = VerbSum -> "sum"
     [] a.Verb = VerbAvg -> "avg" [] a.Verb = VerbMin -> "min"
     [] a.Verb = VerbMax -> "max" [] OTHER -> "")
  \o "(" \o (IF a.Field = "duration" THEN "end - start" ELSE a.Field)
  \o ") as " \o SpecAlias(a)

\* C9: the stats clause lists the aggregations in order, comma-joined, each
\* as '<verb>(<expr>) as <alias>' with the computed expression for a
\* computed field and the alias 'flows' for (*, Count), '<field>_<verb
\* keyword>' otherwise; a computed field in group-by or display position is
\* '<expression> as <field>'
C9_StatsRendering ==
  (Rendered /\ ~out.panic) =>
    \A i \in 1..Len(out.parts) :
      /\ Kind(out.parts[i]) = "stats " =>
           out.parts[i][2] =
             JoinStr([k \in 1..Len(b.aggregations) |->
                        SpecStatsItem(b.aggregations[k])], ", ")
             \o (IF Len(b.groupBy) > 0
                   THEN " by " \o JoinStr([k \in 1..Len(b.groupBy) |->
                                             SpecFieldExpr(b.groupBy[k])], ", ")
                   ELSE "")
      /\ Kind(out.parts[i]) = "display " =>
           out.parts[i][2] =
             JoinStr([k \in 1..Len(b.fields) |-> SpecFieldExpr(b.fields[k])],
                     ", ")

C9_Witness ==
  /\ Rendered /\ ~out.panic
  /\ b.aggregations = <<Agg("duration", VerbSum), Agg("*", VerbCount)>>
  /\ b.groupBy = <<"srcaddr", "duration">>
  /\ \E i \in 1..Len(out.parts) :
       out.parts[i] =
         <<"stats ",
           "sum(end - start) as duration_sum, count(*) as flows"
             \o " by srcaddr, end - start as duration">>

\* a raw query displaying a computed field
C9_DisplayWitness ==
  /\ Rendered /\ ~out.panic
  /\ \E i \in 1..Len(out.parts) :
       out.parts[i] = <<"display ", "srcaddr, end - start as duration">>

\* C10: the parser implements Or := And ('or' And)*, And := Primary ('and'
\* Primary)*, Primary := '(' Or ')' | Clause with case-insensitive keywords:
\* the tree it returns for a text derived from the grammar is the tree of
\* the derivation, at any nesting depth
C10_GrammarTree ==
  st = "parsed" => (~pres.panic /\ pres.err = NoErr /\ pres.expr = pwant)

\* C10 for the texts of the grammar written in ASCII
C10_GrammarTreeASCII ==
  (st = "parsed" /\ IsASCII(Flatten(ptext))) =>
    (~pres.panic /\ pres.err = NoErr /\ pres.expr = pwant)

\* the text 'a=<U+212A> or a=1' of the grammar is not parsed: the call panics
C10_ShorterLowerCasePanics ==
  ~ ( /\ st = "parsed"
      /\ ptext = <<KelvinClause, <<" ","o","r"," ">>, <<"a","=","1">>>>
      /\ pres.panic )

\* 'X and (Y or Z)' with an operator inside the parentheses, parsed to
\* And(X, Or(Y, Z))
C10_Witness ==
  /\ st = "parsed"
  /\ pres.expr = pwant
  /\ pwant.t = "And"
  /\ Len(pwant.subs) = 2
  /\ pwant.subs[1].t \in LeafTypes
  /\ pwant.subs[2].t = "Or"

\* 'a or b and c' parsed to Or(a, And(b, c))
C10_PrecedenceWitness ==
  /\ st = "parsed"
  /\ pres.expr = pwant
  /\ pwant.t = "Or"
  /\ Len(pwant.subs) = 2
  /\ pwant.subs[1].t \in LeafTypes
  /\ pwant.subs[2].t = "And"
  /\ Len(ptext) = 5

(***************************************************************************)
(* The parser on single clauses 'field op value', and on the texts that   *)
(* hold no clause at all.  ptext is <<field, operator text, value>>; last *)
(* records the entry point called, the three parts and the error.         *)
(***************************************************************************)
Chars(s) ==
  CASE s = "srcaddr" -> <<"s","r","c","a","d","d","r">>
    [] s = "action" -> <<"a","c","t","i","o","n">>
    [] s = "srcport" -> <<"s","r","c","p","o","r","t">>
    [] s = "dstport" -> <<"d","s","t","p","o","r","t">>
    [] s = "protocol" -> <<"p","r","o","t","o","c","o","l">>
    [] s = "bytes" -> <<"b","y","t","e","s">>
    [] s = "duration" -> <<"d","u","r","a","t","i","o","n">>
    [] s = "end - start" -> <<"e","n","d"," ","-"," ","s","t","a","r","t">>
    [] s = "vpc_id" -> <<"v","p","c","_","i","d">>
    [] s = "bogus" -> <<"b","o","g","u","s">>
    [] OTHER -> <<>>

ClauseFields ==
  {Chars(f) : f \in {"srcaddr", "action", "srcport", "dstport", "protocol",
                     "bytes", "duration"}}

\* operator texts as they stand in a clause: spaced, bare and upper-case
ClauseOps ==
  { <<" ","="," ">>, <<"=">>, <<" ","!","="," ">>, <<" ",">"," ">>,
    <<"<">>, <<" ",">","="," ">>, <<" ","<","="," ">>,
    <<" ","l","i","k","e"," ">>, <<" ","L","I","K","E"," ">>,
    <<" ","n","o","t"," ","l","i","k","e"," ">> }

\* the last two are not ASCII: U+00C0, whose lower case U+00E0 has as many
\* bytes, and the byte ff, which starts no rune
ClauseValues ==
  { <<"1","0",".","0",".","0",".","1">>,
    <<"1","0",".","0",".","0",".","0","/","8">>,
    <<"1","0",".","0",".","0",".","0","/","3","3">>,
    <<"1","0",".","0">>,
    <<"1","0",".","0",".">>,
    <<"2","5","6",".","1">>,
    <<"2","5","5",".","2","5","5">>,
    <<"0","1","0",".","0",".","0",".","1">>,
    <<"1",".","2",".","3",".","4",".","5">>,
    <<"0">>, <<"6">>, <<"8","0">>, <<"'","8","0","'">>, <<"+","8","0">>,
    <<"6","5","5","3","5">>, <<"6","5","5","3","6">>, <<"-","1">>,
    <<"1",".","5">>, <<"1","e","3">>,
    <<":",":","1">>,
    <<"2","0","0","1",":","d","b","8",":",":","/","3","2">>,
    <<"0","0","0","0","0","0","0","0","0","0","0","0","0","0","0","0","0",
      "8","0">>,
    <<"1","e","9","9","9">>, <<"0","x","1","p","-","2">>,
    <<"1","0","0","0","0","0","0",".","0">>,
    <<"a","b","c">>, <<"g","r","e">>, <<"i","n","f">>,
    <<"t","c","p">>, <<"T","C","P">>, <<"U","d","p">>, <<"i","c","m","p">>,
    <<"i","c","m","p","v","6">>, <<"E","S","P">>, <<"a","h">>,
    EncodeRune(192), <<"\\xff">> }

\* texts without a clause: empty, blank (any rune of unicode.IsSpace),
\* empty parentheses
BlankTexts ==
  { <<>>, <<" "," ">>, NoBreakSpace \o <<VerticalTab>>, <<"(",")">>,
    <<"("," ",")">>, <<"(">> \o EmSpace \o <<")">> }
  \cup WhiteSpace

ClauseCases ==
  (ClauseFields \X ClauseOps \X ClauseValues)
  \cup {<<t, <<>>, <<>>>> : t \in BlankTexts}

InitClause ==
  /\ b = NewBuilder
  /\ st = "clause"
  /\ ret = NoRet
  /\ nopts = 0
  /\ last = NoLast
  /\ hist = [failed |-> 0, ever |-> FALSE, fields |-> <<>>, raw |-> FALSE]
  /\ out = NoOut
  /\ ptext \in ClauseCases
  /\ pwant = Nil
  /\ pres = NoParse
  /\ two = NoTwo
  /\ run = NoRun
  /\ cache = NoCache
  /\ ia = NoAnnotator

\* ParseFilter(text): ParseFilterWithSchema with a nil Schema
DoParseFilter ==
  /\ st = "clause"
  /\ pres' = ParseFilter(Flatten(ptext))
  /\ last' = [op |-> "ParseFilter", args |-> ptext,
              err |-> ParseFilter(Flatten(ptext)).err]
  /\ st' = "clauseParsed"
  /\ UNCHANGED <<cache, ia, two, run, b, ret, nopts, hist, out, ptext, pwant>>

\* ParseFilterWithSchema(text, schema) with the VPC flow-log schema
DoParseFilterWithSchema ==
  /\ st = "clause"
  /\ pres' = ParseFilterWithSchema(Flatten(ptext), TRUE)
  /\ last' = [op |-> "ParseFilterWithSchema", args |-> ptext,
              err |-> ParseFilterWithSchema(Flatten(ptext), TRUE).err]
  /\ st' = "clauseParsed"
  /\ UNCHANGED <<cache, ia, two, run, b, ret, nopts, hist, out, ptext, pwant>>

NextClause == DoParseFilter \/ DoParseFilterWithSchema

SpecClause == InitClause /\ [][NextClause]_vars

(***************************************************************************)
(* Properties of the clause parser.                                        *)
(***************************************************************************)
\* a clause has been parsed
ClauseParsed == st = "clauseParsed" /\ ptext[2] # <<>>

\* the parts of the clause: field name, operator (lower case, no spaces)
\* and value (quotes removed)
CField == Str(ptext[1])
COp == Str(ToLower(TrimSpace(ptext[2])))
CValue == Trim(ptext[3], {"'", "\""})

CompareOps == {"=", "!=", ">", "<", ">=", "<="}
PatternOps == {"=", "!=", "like", "not like"}

\* the node type of an operator
SpecNode(op) ==
  CASE op = "=" -> "Eq" [] op = "!=" -> "Neq" [] op = ">" -> "Gt"
    [] op = "<" -> "Lt" [] op = ">=" -> "Gte" [] op = "<=" -> "Lte"
    [] op = "like" -> "Like" [] op = "not like" -> "NotLike"
    [] OTHER -> ""

\* C11: if ParseFilter returns no error, the expression it returns is
\* non-nil
C11_NeverNilNil ==
  (st = "clauseParsed" /\ last.op = "ParseFilter" /\ ~pres.panic
     /\ pres.err = NoErr)
    => pres.expr # Nil

\* C11 for the texts that hold a clause
C11_ClauseNeverNilNil ==
  (ClauseParsed /\ pres.err = NoErr) => pres.expr # Nil

\* C12: a clause whose operator is outside the operator set of the field's
\* class is a parse error: IP and unregistered fields take =, !=, like,
\* not like; port, protocol and numeric fields take =, !=, >, <, >=, <=
C12_OperatorSets ==
  ClauseParsed =>
    LET supported == IF CField \in {"srcaddr", "action"} THEN PatternOps
                     ELSE CompareOps
    IN COp \notin supported => pres.err # NoErr

\* C12 for IP and unregistered fields
C12_PatternClassOperatorSets ==
  (ClauseParsed /\ CField \in {"srcaddr", "action"}) =>
    (COp \notin PatternOps => pres.err # NoErr)

\* C13: a clause on a numeric field fails unless its value parses as an
\* integer or as a float, with ParseFilter and with ParseFilterWithSchema
C13_NumericValues ==
  (ClauseParsed /\ CField \in {"bytes", "duration"}) =>
    (~(AtoiOk(CValue) \/ ParseFloatOk(CValue)) => pres.err # NoErr)

\* C13 for the clauses the schema does not resolve to a computed field
C13_NumericValuesNotComputed ==
  (ClauseParsed /\ CField \in {"bytes", "duration"}
     /\ (last.op = "ParseFilter" \/ CField # "duration")) =>
    (~(AtoiOk(CValue) \/ ParseFloatOk(CValue)) => pres.err # NoErr)

\* a dotted prefix: one to four octets of digits, each at most 255
SpecDottedPrefix(v) ==
  LET parts == SplitOn(v, ".") IN
  /\ Len(parts) \in 1..4
  /\ \A i \in 1..Len(parts) :
       /\ Len(parts[i]) \in 1..3
       /\ \A k \in 1..Len(parts[i]) : parts[i][k] \in
            {"0", "1", "2", "3", "4", "5", "6", "7", "8", "9"}
       /\ DigitsVal(parts[i]) <= 255

\* C14: for an IP field the literal's shape determines the node: a valid
\* CIDR gives IsIpv4InSubnet (negated for != / not like), a full address
\* Eq / Neq, a dotted prefix Like / NotLike, anything else an error
C14_IPNodeShapes ==
  (ClauseParsed /\ CField = "srcaddr" /\ COp \in PatternOps) =>
    LET pos == COp \in {"=", "like"}
        leaf(t) == Leaf(t, ptext[1], StrV(CValue))
    IN IF \E i \in 1..Len(CValue) : CValue[i] = "/"
         THEN IF ParsePrefixOk(CValue)
                THEN pres = Ok(IF pos THEN leaf("IsIpv4InSubnet")
                               ELSE NotP(leaf("IsIpv4InSubnet")))
              ELSE pres.err # NoErr /\ pres.expr = Nil
       ELSE IF ParseAddrOk(CValue)
         THEN pres = Ok(IF pos THEN leaf("Eq") ELSE leaf("Neq"))
       ELSE IF SpecDottedPrefix(CValue)
         THEN pres = Ok(IF pos THEN leaf("Like") ELSE leaf("NotLike"))
       ELSE pres.err # NoErr /\ pres.expr = Nil

\* 'srcaddr not like 10.0.0.0/8' parsed to Not(IsIpv4InSubnet)
C14_Witness ==
  /\ ClauseParsed /\ CField = "srcaddr" /\ COp = "not like"
  /\ pres.err = NoErr
  /\ pres.expr.t = "Not"
  /\ pres.expr.sub.t = "IsIpv4InSubnet"

\* 'srcaddr = ::1' parsed to Eq and 'srcaddr = 2001:db8::/32' to
\* IsIpv4InSubnet
C14_IPv6Witness ==
  /\ ClauseParsed /\ CField = "srcaddr" /\ COp = "="
  /\ pres.err = NoErr
  /\ \/ pres.expr.t = "Eq" /\ pres.expr.Value = StrV(<<":",":","1">>)
     \/ pres.expr.t = "IsIpv4InSubnet" /\ CValue[1] = "2"

\* 'srcaddr like 10.0' parsed to Like
C14_PrefixWitness ==
  /\ ClauseParsed /\ CField = "srcaddr" /\ COp = "like"
  /\ pres.err = NoErr
  /\ pres.expr.t = "Like"
  /\ pres.expr.Value = StrV(<<"1","0",".","0">>)

\* C15: a clause on srcport or dstport parses only if its value is an
\* integer in [0, 65535], whatever the operator; 0 and 65535 parse
C15_PortRange ==
  (ClauseParsed /\ CField \in {"srcport", "dstport"}) =>
    LET inRange == AtoiOk(CValue) /\ AtoiBetween(CValue, 0, 65535)
    IN /\ pres.err = NoErr => inRange
       /\ (inRange /\ COp \in CompareOps) =>
            pres = Ok(Leaf(SpecNode(COp), ptext[1], AtoiV(CValue)))

C15_Witness ==
  /\ ClauseParsed /\ CField = "dstport" /\ COp = "<="
  /\ CValue = <<"6","5","5","3","5">>
  /\ pres.err = NoErr
  /\ pres.expr.Value = IntV(65535)

\* a port above the range is rejected
C15_RejectWitness ==
  /\ ClauseParsed /\ CField = "srcport"
  /\ CValue = <<"6","5","5","3","6">>
  /\ pres.err # NoErr

\* the numeric code of a protocol acronym, 0 for any other token
SpecProtocolCode(v) ==
  LET l == Str(ToLower(v)) IN
  CASE l = "tcp" -> 6 [] l = "udp" -> 17 [] l = "icmp" -> 1
    [] l = "icmpv6" -> 58 [] l = "esp" -> 50 [] l = "ah" -> 51
    [] OTHER -> 0

\* C16: for the protocol field an acronym in any letter case is replaced by
\* its numeric code for every comparison operator, so that it gives the
\* node of the code itself; any other token without digits is kept as a
\* string literal and is no error
C16_ProtocolAcronyms ==
  (ClauseParsed /\ CField = "protocol" /\ COp \in CompareOps) =>
    LET code == SpecProtocolCode(CValue)
        nonNumeric == \A i \in 1..Len(CValue) : ~IsDigit(CValue[i])
    IN /\ code # 0 =>
            pres = Ok(Leaf(SpecNode(COp), ptext[1], IntV(code)))
       /\ (code = 0 /\ nonNumeric) =>
            pres = Ok(Leaf(SpecNode(COp), ptext[1], StrV(CValue)))

\* C16 for the acronyms and for the tokens that strconv reads neither as an
\* integer nor as a float
C16_ProtocolAcronymsNotFloat ==
  (ClauseParsed /\ CField = "protocol" /\ COp \in CompareOps) =>
    LET code == SpecProtocolCode(CValue) IN
    /\ code # 0 => pres = Ok(Leaf(SpecNode(COp), ptext[1], IntV(code)))
    /\ (code = 0 /\ ~AtoiOk(CValue) /\ ~ParseFloatOk(CValue)) =>
         pres = Ok(Leaf(SpecNode(COp), ptext[1], StrV(CValue)))

(***************************************************************************)
(* ValidateFilter on expression trees built by the caller or the parser:  *)
(* pwant is the tree, b.version the version it is validated for.  A       *)
(* composite node is a pointer (as the parser builds it) or a value (as   *)
(* And{...} in the caller's code); a child may be the nil interface.      *)
(***************************************************************************)
TreeLeaves ==
  { Leaf("Eq", Chars("srcaddr"), StrV(<<"x">>)),
    LeafVal("Gt", Chars("duration"), IntV(5)),
    Leaf("IsIpv4InSubnet", Chars("vpc_id"), StrV(<<"x">>)),
    LeafVal("Eq", Chars("bogus"), IntV(1)) }

RECURSIVE Trees(_)
\* the trees of depth at most d
Trees(d) ==
  IF d = 0 THEN TreeLeaves \cup {Nil}
  ELSE LET sub == Trees(d - 1)
           lists == UNION {[1..k -> sub] : k \in 1..MaxKids}
       IN sub
          \cup {AndP(l) : l \in lists} \cup {AndVal(l) : l \in lists}
          \cup {OrP(l) : l \in lists}
          \cup {NotP(e) : e \in sub} \cup {NotVal(e) : e \in sub}

ValidateVersions == {2, 3, 7}

InitValidate ==
  /\ \E v \in ValidateVersions : b = [NewBuilder EXCEPT !.version = v]
  /\ st = "validating"
  /\ ret = NoRet
  /\ nopts = 0
  /\ last = NoLast
  /\ hist = [failed |-> 0, ever |-> FALSE, fields |-> <<>>, raw |-> FALSE]
  /\ out = NoOut
  /\ ptext = <<>>
  /\ pwant \in Trees(MaxDepth)
  /\ pres = NoParse
  /\ two = NoTwo
  /\ run = NoRun
  /\ cache = NoCache
  /\ ia = NoAnnotator

\* ValidateFilter(expr, schema, version)
DoValidate ==
  /\ st = "validating"
  /\ last' = [op |-> "ValidateFilter", args |-> pwant,
              err |-> ValidateFilter(pwant, b.version)]
  /\ st' = "validated"
  /\ UNCHANGED <<cache, ia, two, run, b, ret, nopts, hist, out, ptext, pwant, pres>>

NextValidate == DoValidate

SpecValidate == InitValidate /\ [][NextValidate]_vars

RECURSIVE LeafSeq(_)
\* the leaf comparisons of a tree, left to right
LeafSeq(e) ==
  IF e.t \in {"And", "Or"}
    THEN Flatten([i \in 1..Len(e.subs) |-> LeafSeq(e.subs[i])])
  ELSE IF e.t = "Not" THEN LeafSeq(e.sub)
  ELSE IF e.t \in LeafTypes THEN <<e>>
  ELSE <<>>

RECURSIVE PointerTree(_)
\* every And, Or and Not of the tree is a pointer and no child is nil
PointerTree(e) ==
  IF e.t \in {"And", "Or"}
    THEN e.ptr /\ \A i \in 1..Len(e.subs) : PointerTree(e.subs[i])
  ELSE IF e.t = "Not" THEN e.ptr /\ PointerTree(e.sub)
  ELSE e.t \in LeafTypes

\* what the specification gives for ValidateFilter: nil for a nil tree and
\* when every leaf's field is valid, else the error of the first invalid leaf
SpecValidateFilter(e, version) ==
  LET ls == LeafSeq(e)
      bad == {i \in 1..Len(ls) :
                ValidateField(Str(ls[i].Field), version) # NoErr}
  IN IF bad = {} THEN NoErr
     ELSE ValidateField(Str(ls[CHOOSE i \in bad : \A j \in bad : i <= j].Field),
                        version)

\* C17: ValidateFilter visits every leaf under any nesting of And, Or and
\* Not; it returns nil exactly when every leaf's field is valid for the
\* version, the error of the first invalid leaf otherwise, and nil for nil
C17_ValidateFilterLeaves ==
  st = "validated" => last.err = SpecValidateFilter(pwant, b.version)

\* C17 for the trees whose And, Or and Not nodes are pointers without nil
\* children
C17_ValidateFilterPointerTrees ==
  (st = "validated" /\ (pwant = Nil \/ PointerTree(pwant))) =>
    last.err = SpecValidateFilter(pwant, b.version)

(***************************************************************************)
(* Two Builders made by two calls of New that are given the same Option   *)
(* value WithAggregations(aggs...), or two Option values made from the    *)
(* same slice aggs.  The closure keeps the slice and the option assigns   *)
(* it to b.aggregations, so a Builder that applied it shares the backing  *)
(* array two.aggs (alias); WithVerb and WithFields write element 0 of     *)
(* b.aggregations in place.  The two calls of New run in two goroutines   *)
(* without synchronisation.  The loop of WithAggregations copies each     *)
(* element of the slice: the Field, a string of two words (the pointer to *)
(* its bytes and its length), and the Verb, one word.  Nothing orders the *)
(* three loads with the stores of the other goroutine: each load is a     *)
(* step of its own, in any order.  The copy may hold a Field and a Verb   *)
(* that were never in the slice together, and a Field whose pointer and   *)
(* length come from different stores: the first bytes of the longer name, *)
(* or the shorter name followed by the bytes that lie after it in memory. *)
(* The other options touch the shared array with one store at most and    *)
(* are one step each; WithFields stores one name here, so two racing      *)
(* stores leave that name.  Running one call after the other is one of    *)
(* the interleavings.                                                      *)
(***************************************************************************)
SharedSlices ==
  { <<Agg("bytes", VerbSum)>>,
    <<Agg("*", VerbCount)>>,
    <<Agg("srcaddr", VerbCount), Agg("bytes", VerbSum)>> }

TwoVerbs == {VerbRaw, VerbCount, VerbSum}
TwoFields == { <<>>, <<"packets">> }

\* two.mem: the values the shared slice has held so far
\* the loop variable agg of WithAggregations: k is the element being
\* copied (0 outside the loop), got the fields read so far, seen the
\* copies the loop body has accepted
NoCopy ==
  [k |-> 0, got |-> {}, data |-> "", len |-> 0, Verb |-> "", seen |-> <<>>]
AggParts == {"data", "len", "Verb"}

\* a byte that lies after a name in memory: any value
ForeignBytes == {"\\x00", "s"}

RECURSIVE Repeat(_, _)
Repeat(c, n) == IF n <= 0 THEN "" ELSE c \o Repeat(c, n - 1)

\* the string of the pointer data and the length n: the name, its first n
\* bytes, or the name and the bytes after it, each of them fill
StringOf(data, n, fill) ==
  IF n <= Len(data) THEN SubSeq(data, 1, n)
  ELSE data \o Repeat(fill, n - Len(data))

\* Builder i as its methods see it: aggregations read through the slice
DerefOf(t, i) ==
  IF t.bs[i].alias THEN [t.bs[i].b EXCEPT !.aggregations = t.aggs]
  ELSE t.bs[i].b

InitTwo ==
  /\ b = NewBuilder
  /\ st = "two"
  /\ ret = NoRet
  /\ nopts = 0
  /\ last = NoLast
  /\ hist = [failed |-> 0, ever |-> FALSE, fields |-> <<>>, raw |-> FALSE]
  /\ out = NoOut
  /\ ptext = <<>>
  /\ pwant = Nil
  /\ pres = NoParse
  /\ \E s \in SharedSlices :
       two = [aggs |-> s, mem |-> {s},
              bs |-> [i \in 1..2 |-> [b |-> NewBuilder, alias |-> FALSE,
                                      status |-> "applying", n |-> 0,
                                      copy |-> NoCopy, err |-> NoErr]],
              who |-> 0]
  /\ run = NoRun
  /\ cache = NoCache
  /\ ia = NoAnnotator

TwoUnchanged ==
  UNCHANGED <<cache, ia, b, st, ret, nopts, last, hist, out, ptext, pwant,
              pres, run>>

\* the call of New for Builder i is between two options
TwoIdle(i) ==
  /\ st = "two"
  /\ two.bs[i].status = "applying"
  /\ two.bs[i].copy.k = 0

\* the call of New for Builder i has applied an option, with result r;
\* inPlace: the option wrote element 0 of b.aggregations; alias: whether
\* b.aggregations is the shared slice afterwards
TwoApply(i, r, inPlace, alias) ==
  /\ st = "two"
  /\ two.bs[i].status = "applying"
  /\ two.bs[i].n < MaxOpts
  /\ two' =
       [aggs |-> IF r.err = NoErr /\ two.bs[i].alias /\ inPlace
                   THEN r.b.aggregations ELSE two.aggs,
        mem |-> IF r.err = NoErr /\ two.bs[i].alias /\ inPlace
                  THEN two.mem \cup {r.b.aggregations} ELSE two.mem,
        bs |-> [two.bs EXCEPT ![i] =
                  [b |-> IF r.err = NoErr THEN r.b ELSE two.bs[i].b,
                   alias |-> IF r.err = NoErr THEN alias ELSE two.bs[i].alias,
                   status |-> NewLoop(r).st,
                   n |-> two.bs[i].n + 1,
                   copy |-> NoCopy,
                   err |-> r.err]],
        who |-> i]
  /\ TwoUnchanged

\* the loop variable c after the load of one word of element c.k
TwoRead(c, part) ==
  [c EXCEPT !.got = @ \cup {part},
            !.data = IF part = "data" THEN two.aggs[c.k].Field ELSE @,
            !.len = IF part = "len" THEN Len(two.aggs[c.k].Field) ELSE @,
            !.Verb = IF part = "Verb" THEN two.aggs[c.k].Verb ELSE @]

\* Builder i's WithAggregations with the loop variable c whose Field is
\* field: a whole copy is validated by the loop body; the option returns
\* the first error, or assigns the slice after the last element
TwoLoopWith(i, c, seen, r) ==
  IF c.got = AggParts /\ (r.err # NoErr \/ c.k = Len(two.aggs))
    THEN TwoApply(i, r, FALSE, TRUE)
  ELSE /\ two.bs[i].n < MaxOpts
       /\ two' = [two EXCEPT
                    !.bs[i].copy =
                      IF c.got = AggParts
                        THEN [NoCopy EXCEPT !.k = c.k + 1, !.seen = seen]
                      ELSE c,
                    !.who = i]
       /\ TwoUnchanged

TwoLoopSeen(i, c, seen) ==
  TwoLoopWith(i, c, seen, WithAggregations(DerefOf(two, i), seen))

TwoLoop(i, c) ==
  \E fill \in ForeignBytes :
    TwoLoopSeen(i, c,
                Append(c.seen, Agg(StringOf(c.data, c.len, fill), c.Verb)))

\* the shared option: WithAggregations over the slice, which is never
\* empty here; the loop starts with the load of one word of element 0
TwoWithAggregations ==
  \E i \in 1..2 : \E part \in AggParts :
    /\ TwoIdle(i)
    /\ TwoLoop(i, TwoRead([NoCopy EXCEPT !.k = 1], part))

\* the loop loads the next word of the element it is copying
TwoCopy ==
  \E i \in 1..2 : \E part \in AggParts \ two.bs[i].copy.got :
    /\ st = "two"
    /\ two.bs[i].status = "applying"
    /\ two.bs[i].copy.k > 0
    /\ TwoLoop(i, TwoRead(two.bs[i].copy, part))

TwoWithVerb ==
  \E i \in 1..2 : \E v \in TwoVerbs :
    LET inPlace == v # VerbRaw /\ Len(DerefOf(two, i).aggregations) > 0 IN
    /\ TwoIdle(i)
    /\ TwoApply(i, WithVerb(DerefOf(two, i), v), inPlace,
                inPlace /\ two.bs[i].alias)

TwoWithFields ==
  \E i \in 1..2 : \E fs \in TwoFields :
    /\ TwoIdle(i)
    /\ TwoApply(i, WithFields(DerefOf(two, i), fs),
                Len(DerefOf(two, i).aggregations) > 0 /\ Len(fs) > 0,
                two.bs[i].alias)

\* New returns Builder i
TwoReturn ==
  \E i \in 1..2 :
    /\ TwoIdle(i)
    /\ two' = [two EXCEPT !.bs[i].status = "returned", !.who = i]
    /\ TwoUnchanged

NextTwo ==
  TwoWithAggregations \/ TwoCopy \/ TwoWithVerb \/ TwoWithFields \/ TwoReturn

SpecTwo == InitTwo /\ [][NextTwo]_vars

\* C18: distinct Builders are independent: a step of the construction of
\* one Builder never changes the state of the other Builder nor the query
\* it renders
C18_Independent ==
  [][\A i \in 1..2 :
       (st = "two" /\ two'.who # i /\ two.bs[i].status # "failed") =>
         /\ DerefOf(two', i) = DerefOf(two, i)
         /\ String(DerefOf(two', i)).text = String(DerefOf(two, i)).text]_vars

\* C18: WithAggregations refuses only an element that the shared slice
\* has held
C18_RefusedElementWasInSlice ==
  \A i \in 1..2 :
    (st = "two" /\ two.bs[i].status = "failed"
       /\ two.bs[i].err.kind = "field must be numeric for verb") =>
      \E m \in two.mem : \E k \in 1..Len(m) :
        two.bs[i].err.args = <<m[k].Field, m[k].Verb>>

\* C18: WithAggregations finds an invalid field only in a Field that the
\* shared slice has held
C18_InvalidFieldWasInSlice ==
  \A i \in 1..2 :
    (st = "two" /\ two.bs[i].status = "failed"
       /\ two.bs[i].err.kind = "invalid field") =>
      \E m \in two.mem : \E k \in 1..Len(m) :
        two.bs[i].err.args[1] = m[k].Field

\* C18 while the two Builders do not both hold the shared slice
C18_IndependentUnlessShared ==
  [][\A i \in 1..2 :
       (st = "two" /\ two'.who # i /\ two.bs[i].status # "failed"
          /\ ~(two.bs[1].alias /\ two.bs[2].alias)) =>
         /\ DerefOf(two', i) = DerefOf(two, i)
         /\ String(DerefOf(two', i)).text = String(DerefOf(two, i)).text]_vars

(***************************************************************************)
(* Runner.Run: one call, its context and the CloudWatch Logs client.  run *)
(* is the state of the call: pc is its position (start: before           *)
(* StartQuery; top: the context check that opens the loop; call: in       *)
(* GetQueryResults; answer: the call has returned and Run is about to     *)
(* look at its answer ans; wait: the select of the back-off; done:        *)
(* returned), polls the answers Run has acted on so far (the status, and  *)
(* the rows where Run reads them: in a Complete answer), after the number *)
(* of calls that returned after the context was cancelled, cancelAt and   *)
(* cancelAns the position of Run and the answer it held when the context  *)
(* was cancelled, interval the poll interval in milliseconds, waits the   *)
(* timers armed so far, timer the state of the back-off timer (armed by   *)
(* time.After, fired once the interval has passed).  The client answers   *)
(* each call with any of its outcomes; the rows of a Complete answer hold *)
(* the Field and Value pointers of the client, which Run dereferences;    *)
(* NilPointer is a nil one.  Durations are milliseconds.  The context can *)
(* be cancelled at any position of Run, and the timer fires whenever the  *)
(* interval has passed: neither is a step of Run.                         *)
(***************************************************************************)
PollIntervals == {0, 500, 4000, 20000}

\* GetQueryResults: an error, or an output with one of these statuses
\* ("Paused" stands for a status the switch does not list)
PollOutcomes ==
  {"error", "Complete", "Failed", "Cancelled", "Timeout", "Unknown",
   "Running", "Scheduled", "Paused"}

NilPointer == "<nil>"
RowSets ==
  { <<>>, << <<"srcaddr", "10.0.0.1">> >>, << <<"srcaddr", NilPointer>> >> }
StatValues == {0, 7}
ContextErrors == {"context canceled", "context deadline exceeded"}

EmptyResult == [rows |-> <<>>, stats |-> 0]
NoReturn ==
  [ok |-> FALSE, result |-> EmptyResult, err |-> "", wraps |-> "",
   panic |-> FALSE]

\* no answer of GetQueryResults is held
NoAnswer == [o |-> "", rows |-> <<>>, sv |-> 0]

InitRun ==
  /\ b = NewBuilder
  /\ st = "run"
  /\ ret = NoRet
  /\ nopts = 0
  /\ last = NoLast
  /\ hist = [failed |-> 0, ever |-> FALSE, fields |-> <<>>, raw |-> FALSE]
  /\ out = NoOut
  /\ ptext = <<>>
  /\ pwant = Nil
  /\ pres = NoParse
  /\ two = NoTwo
  /\ cache = NoCache
  /\ ia = NoAnnotator
  /\ \E p \in PollIntervals :
       run = [pc |-> "start", PollInterval |-> p, cancelled |-> FALSE,
              ctxErr |-> "", cancelAt |-> "", cancelAns |-> "",
              nstart |-> 0, startOk |-> FALSE, ans |-> NoAnswer,
              polls |-> <<>>, after |-> 0, interval |-> 0, waits |-> <<>>,
              timer |-> "off", stats |-> 0, warned |-> FALSE,
              ret |-> NoReturn]

RunUnchanged == UNCHANGED <<cache, ia, b, st, ret, nopts, last, hist, out, ptext, pwant,
                           pres, two>>

\* an error return: QueryResult{} and the error
ErrReturn(err, wraps) ==
  [ok |-> FALSE, result |-> EmptyResult, err |-> err, wraps |-> wraps,
   panic |-> FALSE]

\* the Complete case: the rows are copied, each *field.Field and *field.Value
\* dereferenced
CompleteReturn(rows, stats) ==
  IF \E i \in 1..Len(rows) : rows[i][1] = NilPointer \/ rows[i][2] = NilPointer
    THEN [ok |-> FALSE, result |-> EmptyResult, err |-> "", wraps |-> "",
          panic |-> TRUE]
  ELSE [ok |-> TRUE, result |-> [rows |-> rows, stats |-> stats],
        err |-> "", wraps |-> "", panic |-> FALSE]

\* the context is cancelled or its deadline passes, at any moment of the call
Cancel ==
  /\ st = "run"
  /\ ~run.cancelled
  /\ run.pc \in {"start", "top", "call", "answer", "wait"}
  /\ \E e \in ContextErrors :
       run' = [run EXCEPT !.cancelled = TRUE, !.ctxErr = e,
                          !.cancelAt = run.pc, !.cancelAns = run.ans.o]
  /\ RunUnchanged

\* StartQuery and the set-up of the loop
RunStartQuery ==
  /\ st = "run"
  /\ run.pc = "start"
  /\ \E ok \in BOOLEAN :
       run' = IF ok
                THEN [run EXCEPT !.pc = "top", !.nstart = @ + 1,
                                 !.startOk = TRUE,
                                 !.interval = IF run.PollInterval = 0
                                                THEN DefaultPollInterval
                                                ELSE run.PollInterval]
              ELSE [run EXCEPT !.pc = "done", !.nstart = @ + 1,
                               !.ret = ErrReturn("failed to start query",
                                                 "StartQuery")]
  /\ RunUnchanged

\* the select on ctx.Done() that opens each iteration
CtxCheck(r) ==
  IF r.cancelled
    THEN [pc |-> "done",
          ret |-> ErrReturn("query cancelled by context", r.ctxErr)]
  ELSE [pc |-> "call", ret |-> r.ret]

RunCheckCtx ==
  /\ st = "run"
  /\ run.pc = "top"
  /\ run' = [run EXCEPT !.pc = CtxCheck(run).pc, !.ret = CtxCheck(run).ret]
  /\ RunUnchanged

AfterPollRetriesUnknown(o, rows, stats) ==
  CASE o = "error" ->
         [pc |-> "done",
          ret |-> ErrReturn("failed to get query results", "GetQueryResults")]
    [] o = "Complete" -> [pc |-> "done", ret |-> CompleteReturn(rows, stats)]
    [] o = "Failed" ->
         [pc |-> "done", ret |-> ErrReturn("query execution failed", "")]
    [] o = "Cancelled" ->
         [pc |-> "done", ret |-> ErrReturn("query was cancelled", "")]
    [] o = "Timeout" ->
         [pc |-> "done", ret |-> ErrReturn("query execution timed out", "")]
    [] o \in {"Running", "Scheduled", "Unknown"} ->
         [pc |-> "wait", ret |-> NoReturn]
    [] OTHER ->
         [pc |-> "done", ret |-> ErrReturn("unknown query status", o)]

\* what Run does with the answer of GetQueryResults: the error check and
\* the switch on status.Status
AfterPoll(o, rows, stats) ==
  CASE o = "error" ->
         [pc |-> "done",
          ret |-> ErrReturn("failed to get query results", "GetQueryResults")]
    [] o = "Complete" -> [pc |-> "done", ret |-> CompleteReturn(rows, stats)]
    [] o = "Failed" ->
         [pc |-> "done", ret |-> ErrReturn("query execution failed", "")]
    [] o = "Cancelled" ->
         [pc |-> "done", ret |-> ErrReturn("query was cancelled", "")]
    [] o = "Timeout" ->
         [pc |-> "done", ret |-> ErrReturn("query execution timed out", "")]
    [] o = "Unknown" ->
         [pc |-> "done", ret |-> ErrReturn("query status is unknown", "")]
    [] o \in {"Running", "Scheduled"} -> [pc |-> "wait", ret |-> NoReturn]
    [] OTHER ->
         [pc |-> "done", ret |-> ErrReturn("unknown query status", o)]

\* the long-query warning (late: more than 30 s since the start) and the
\* call of GetQueryResults, which returns the client's answer
RunGetQueryResults ==
  /\ st = "run"
  /\ run.pc = "call"
  /\ \E o \in PollOutcomes : \E rows \in RowSets : \E sv \in StatValues :
     \E late \in BOOLEAN :
       run' = [run EXCEPT
                 !.pc = "answer",
                 !.ans = [o |-> o,
                          rows |-> IF o = "Complete" THEN rows ELSE <<>>,
                          sv |-> IF o = "error" THEN 0 ELSE sv],
                 !.after = @ + (IF run.cancelled THEN 1 ELSE 0),
                 !.warned = @ \/ late]
  /\ RunUnchanged

\* Run with the answer a and the statistics stats: the error check and the
\* switch; the Running and Scheduled case arms the timer of the back-off
RunWithAnswer(a, stats, next) ==
  run' = [run EXCEPT
            !.pc = next.pc,
            !.ret = next.ret,
            !.ans = NoAnswer,
            !.polls = Append(@, [status |-> a.o, rows |-> a.rows]),
            !.stats = stats,
            !.waits = IF next.pc = "wait" THEN Append(@, run.interval) ELSE @,
            !.timer = IF next.pc = "wait" THEN "armed" ELSE @]

RunAnswerStats(a, stats) == RunWithAnswer(a, stats, AfterPoll(a.o, a.rows, stats))

\* what Run does once GetQueryResults has returned: the error check, the
\* statistics and the switch on the status
RunAfterPoll ==
  /\ st = "run"
  /\ run.pc = "answer"
  /\ RunAnswerStats(run.ans, IF run.ans.sv # 0 THEN run.ans.sv ELSE run.stats)
  /\ RunUnchanged

\* the interval of the back-off has passed: the channel of time.After is
\* ready
TimerFires ==
  /\ st = "run"
  /\ run.pc = "wait"
  /\ run.timer = "armed"
  /\ run' = [run EXCEPT !.timer = "fired"]
  /\ RunUnchanged

BackoffReadyTimerOnly(r) == IF r.timer = "fired" THEN {"timer"} ELSE {}

\* the cases of the back-off select that are ready: ctx.Done() once the
\* context is cancelled, the channel of time.After once the timer has fired
BackoffReady(r) ==
  (IF r.cancelled THEN {"done"} ELSE {})
    \cup (IF r.timer = "fired" THEN {"timer"} ELSE {})

\* the back-off select: ctx.Done() is ready
RunWaitCtxDone ==
  /\ st = "run"
  /\ run.pc = "wait"
  /\ "done" \in BackoffReady(run)
  /\ run' = [run EXCEPT
               !.pc = "done",
               !.ret = ErrReturn("query cancelled by context", run.ctxErr)]
  /\ RunUnchanged

\* the back-off select: the timer has fired; the interval doubles up to
\* MaxPoll
RunWaitTimer ==
  /\ st = "run"
  /\ run.pc = "wait"
  /\ "timer" \in BackoffReady(run)
  /\ Len(run.polls) < MaxPolls
  /\ run' = [run EXCEPT
               !.pc = "top",
               !.timer = "off",
               !.interval = IF 2 * @ > MaxPoll THEN MaxPoll ELSE 2 * @]
  /\ RunUnchanged

\* the steps of Run itself and of the client it calls
RunSteps ==
  \/ RunStartQuery
  \/ RunCheckCtx
  \/ RunGetQueryResults
  \/ RunAfterPoll
  \/ RunWaitCtxDone
  \/ RunWaitTimer

NextRun == Cancel \/ TimerFires \/ RunSteps

SpecRun == InitRun /\ [][NextRun]_vars

\* the goroutine of Run is scheduled and the client answers.  Nothing is
\* assumed of the moment the context is cancelled nor of the length of the
\* back-off interval: the timer need never fire.
SpecRunFair == SpecRun /\ WF_vars(RunSteps)

(***************************************************************************)
(* Properties of Runner.Run.                                               *)
(***************************************************************************)
Returned == st = "run" /\ run.pc = "done"
PollCount == Len(run.polls)
LastPoll == run.polls[PollCount]
PendingStatuses == {"Running", "Scheduled"}

\* the error the specification gives for each ending of a poll
SpecPollError(o) ==
  CASE o = "error" -> "failed to get query results"
    [] o = "Failed" -> "query execution failed"
    [] o = "Cancelled" -> "query was cancelled"
    [] o = "Timeout" -> "query execution timed out"
    [] o = "Unknown" -> "query status is unknown"
    [] OTHER -> "unknown query status"

\* C19: Run calls StartQuery exactly once; when it fails Run returns that
\* error wrapped and never polls.  Run polls GetQueryResults again only
\* after a Running or Scheduled status; Complete returns the results of that
\* poll, and a failing poll or a Failed, Cancelled, Timeout, Unknown or
\* unrecognised status returns an error with an empty result.
C19_RunPolling ==
  st = "run" =>
    /\ run.nstart <= 1
    /\ run.pc # "start" => run.nstart = 1
    /\ (run.nstart = 1 /\ ~run.startOk) =>
         /\ Returned
         /\ PollCount = 0
         /\ run.ret = ErrReturn("failed to start query", "StartQuery")
    /\ \A i \in 1..(PollCount - 1) : run.polls[i].status \in PendingStatuses
    /\ (PollCount > 0 /\ LastPoll.status \notin PendingStatuses) =>
         /\ Returned
         /\ IF LastPoll.status = "Complete"
              THEN \/ run.ret.panic
                   \/ /\ run.ret.ok
                      /\ run.ret.err = ""
                      /\ run.ret.result.rows = LastPoll.rows
            ELSE /\ ~run.ret.ok
                 /\ ~run.ret.panic
                 /\ run.ret.err = SpecPollError(LastPoll.status)
                 /\ run.ret.result = EmptyResult
    /\ (Returned /\ run.ret.ok) =>
         PollCount > 0 /\ LastPoll.status = "Complete"

C19_Witness ==
  /\ Returned
  /\ PollCount >= 2
  /\ LastPoll.status = "Complete"
  /\ LastPoll.rows # <<>>
  /\ run.ret.ok

C19_FailureWitness ==
  /\ Returned
  /\ PollCount >= 2
  /\ LastPoll.status = "Unknown"
  /\ run.ret.err = "query status is unknown"

\* a cancellation while Run is in progress
CancelledInFlight == st = "run" /\ run.cancelAt # ""

\* the statuses that end a query: every status but Running and Scheduled
TerminalStatuses == PollOutcomes \ (PendingStatuses \cup {"error"})

\* the context was cancelled while the query had not reached a terminal
\* status: no call had returned one (Run returns at the first)
CancelledBeforeTerminal ==
  CancelledInFlight /\ run.cancelAns \notin TerminalStatuses

\* the same, and no call had failed either
CancelledWhilePolling ==
  CancelledInFlight /\ run.cancelAns \in (PendingStatuses \cup {""})

\* Run has returned from a call whose query was started and whose context
\* was cancelled on the way
ReturnedAfterCancel == CancelledInFlight /\ Returned /\ run.startOk

\* C20 (as stated): once the context is cancelled while the started query
\* has not reached a terminal status, Run makes at most one further
\* GetQueryResults call, and unless that call reports a terminal status Run
\* returns the error "query cancelled by context" wrapping the context's
\* error.
C20_CancelStops ==
  /\ CancelledBeforeTerminal => run.after <= 1
  /\ (ReturnedAfterCancel /\ CancelledBeforeTerminal) =>
       \/ /\ run.after = 1
          /\ LastPoll.status \in TerminalStatuses
       \/ run.ret = ErrReturn("query cancelled by context", run.ctxErr)

\* the call that returned after the cancellation failed: Run returns that
\* call's error, not the cancellation
C20_FurtherCallFails ==
  ~ ( /\ ReturnedAfterCancel
      /\ run.cancelAt = "call"
      /\ run.after = 1
      /\ LastPoll.status = "error"
      /\ run.ret = ErrReturn("failed to get query results",
                             "GetQueryResults") )

\* the context is cancelled when a call has just failed and Run has yet to
\* look at the answer: no further call is made and Run returns the error of
\* the failed call
C20_CancelledAfterFailedCall ==
  ~ ( /\ ReturnedAfterCancel
      /\ run.cancelAt = "answer"
      /\ run.cancelAns = "error"
      /\ run.after = 0
      /\ run.ret = ErrReturn("failed to get query results",
                             "GetQueryResults") )

\* the context is cancelled when a call has just reported Complete: the
\* query has reached a terminal status and Run returns the results
C20_CancelledAfterComplete ==
  ~ ( /\ ReturnedAfterCancel
      /\ run.cancelAt = "answer"
      /\ run.cancelAns = "Complete"
      /\ run.ret.ok )

\* the cancellation of a query that is being polled (no call has failed or
\* reported a terminal status): at most one call returns after it; Run
\* returns the cancellation error with the context's error unless that call
\* fails, and then the error of the failed call, or reports a terminal
\* status
C20_CancelSafety ==
  /\ CancelledWhilePolling => run.after <= 1
  /\ (ReturnedAfterCancel /\ CancelledWhilePolling) =>
       IF run.after = 1 /\ LastPoll.status = "error"
         THEN run.ret = ErrReturn("failed to get query results",
                                  "GetQueryResults")
       ELSE \/ run.after = 1 /\ LastPoll.status \in TerminalStatuses
            \/ run.ret = ErrReturn("query cancelled by context", run.ctxErr)

\* C20 (amended): once the context is cancelled while the query has not
\* reached a terminal status and no GetQueryResults call has failed, Run
\* terminates: it returns without waiting out the remaining back-off
\* interval (whether or not the timer ever fires) and after at most one
\* further GetQueryResults call; unless that call fails or reports a
\* terminal status the returned error is "query cancelled by context"
\* wrapping the context's error, and if that call fails it is "failed to get
\* query results" wrapping the call's error.
C20_CancelTerminates ==
  /\ []C20_CancelSafety
  /\ CancelledWhilePolling ~> Returned

\* cancelled during the back-off: Run returns the cancellation error while
\* the timer is still armed, and no call follows
C20_Witness ==
  /\ Returned
  /\ CancelledWhilePolling
  /\ run.cancelAt = "wait"
  /\ run.timer = "armed"
  /\ PollCount >= 1
  /\ run.after = 0
  /\ run.ret = ErrReturn("query cancelled by context", "context deadline exceeded")

\* cancelled during a call that then reports Running: the back-off select
\* returns at once
C20_FurtherCallWitness ==
  /\ Returned
  /\ run.cancelAt = "call"
  /\ run.after = 1
  /\ LastPoll.status = "Running"
  /\ run.timer = "armed"
  /\ run.ret = ErrReturn("query cancelled by context", "context canceled")

(***************************************************************************)
(* The back-off of Runner.Run: run.waits are the durations of the timers  *)
(* armed by the back-off select, in milliseconds, in order.                *)
(***************************************************************************)
SpecFirstWait ==
  IF run.PollInterval = 0 THEN DefaultPollInterval ELSE run.PollInterval

SpecNextWait(w) == IF 2 * w > MaxPoll THEN MaxPoll ELSE 2 * w

WaitsFollowBackoff ==
  /\ Len(run.waits) >= 1 => run.waits[1] = SpecFirstWait
  /\ \A i \in 1..(Len(run.waits) - 1) :
       run.waits[i + 1] = SpecNextWait(run.waits[i])

\* C21: the wait between two consecutive polls starts at the Runner's poll
\* interval (500 ms when unset), doubles after each wait, and never exceeds
\* the 10-second maximum poll interval, for every configured poll interval.
C21_Backoff ==
  st = "run" =>
    /\ WaitsFollowBackoff
    /\ \A i \in 1..Len(run.waits) : run.waits[i] <= MaxPoll

\* the same for a configured poll interval that is not above the maximum
C21_BackoffWithinMax ==
  (st = "run" /\ run.PollInterval <= MaxPoll) =>
    /\ WaitsFollowBackoff
    /\ \A i \in 1..Len(run.waits) : run.waits[i] <= MaxPoll

\* from the second wait on no wait exceeds the maximum
C21_LaterWaitsCapped ==
  st = "run" =>
    /\ WaitsFollowBackoff
    /\ \A i \in 2..Len(run.waits) : run.waits[i] <= MaxPoll

(***************************************************************************)
(* Cache.RefreshENIs: one call on a Cache whose ENI bucket holds, for each *)
(* ENI id, an ENITag or nothing.  cache is [pc, enis, i, bucket, before,   *)
(* last, ret]: i the index of the next ENI, before the bucket as it was    *)
(* when the last iteration began, last what that iteration was given.  The *)
(* provider answers each call with a tag or an error; a write of the       *)
(* bucket (bbolt Update) succeeds or fails.  Error texts are character     *)
(* sequences, as IsENINotFoundError scans them.                            *)
(***************************************************************************)
MaxEnis == 2
EniIds == {"eni-1", "eni-2"}
NoEntry == [ENI |-> ""]

\* "api error InvalidNetworkInterfaceID.NotFound"
ErrApiNotFound ==
  <<"a","p","i"," ","e","r","r","o","r"," ","I","n","v","a","l","i",
    "d","N","e","t","w","o","r","k","I","n","t","e","r","f","a","c",
    "e","I","D",".","N","o","t","F","o","u","n","d">>
\* "InvalidNetworkInterfaceID: does not exist"
ErrInvalidID ==
  <<"I","n","v","a","l","i","d","N","e","t","w","o","r","k","I","n",
    "t","e","r","f","a","c","e","I","D",":"," ","d","o","e","s"," ",
    "n","o","t"," ","e","x","i","s","t">>
\* "context deadline exceeded"
ErrDeadline ==
  <<"c","o","n","t","e","x","t"," ","d","e","a","d","l","i","n","e",
    " ","e","x","c","e","e","d","e","d">>
\* "ENI not found"
ErrEmptyResponse ==
  <<"E","N","I"," ","n","o","t"," ","f","o","u","n","d">>

ProviderErrors == {ErrApiNotFound, ErrInvalidID, ErrDeadline, ErrEmptyResponse}
NotFoundCode ==
  <<"I","n","v","a","l","i","d","N","e","t","w","o","r","k","I","n",
    "t","e","r","f","a","c","e","I","D",".","N","o","t","F","o","u",
    "n","d">>
InvalidIDCode ==
  <<"I","n","v","a","l","i","d","N","e","t","w","o","r","k","I","n",
    "t","e","r","f","a","c","e","I","D">>

\* aws.IsENINotFoundError, for a non-nil error
IsENINotFoundError(err) ==
  Contains(err, NotFoundCode) \/ Contains(err, InvalidIDCode)

\* an entry written before the call (FirstSeen 1) with a Name
OldEntry(id) ==
  [ENI |-> id, Label |-> "old", SGNames |-> <<"old">>,
   PrivateIPs |-> <<"10.0.0.4">>, FirstSeen |-> 1, Name |-> "web"]

\* aws.ENITag values the provider returns: a tag of an ENI, or the zero tag
AwsTag(id) ==
  [ENI |-> id, Label |-> "new", SGNames |-> <<"new">>,
   PrivateIPs |-> <<"10.0.0.5">>]
EmptyAwsTag == [ENI |-> "", Label |-> "", SGNames |-> <<>>, PrivateIPs |-> <<>>]

\* GetENITag: (tag, nil) or (ENITag{}, err); err <<>> is nil
ProviderAnswers ==
  {[tag |-> t, err |-> <<>>] : t \in {AwsTag(id) : id \in EniIds} \cup {EmptyAwsTag}}
    \cup {[tag |-> EmptyAwsTag, err |-> e] : e \in ProviderErrors}

\* the conversion to cache.ENITag; time.Now().Unix() is 2
CacheTag(t) ==
  [ENI |-> t.ENI, Label |-> t.Label, SGNames |-> t.SGNames,
   PrivateIPs |-> t.PrivateIPs, FirstSeen |-> 2, Name |-> ""]

\* UpsertEni: Put under the tag's ENI, unless the update fails
UpsertEni(bucket, tag, ok) ==
  IF ok THEN [bucket EXCEPT ![tag.ENI] = tag] ELSE bucket

\* DeleteENI: Delete of the key, unless the update fails
DeleteENI(bucket, id, ok) ==
  IF ok THEN [bucket EXCEPT ![id] = NoEntry] ELSE bucket

handleENIError(bucket, id, err, ok) ==
  IF IsENINotFoundError(err) THEN DeleteENI(bucket, id, ok) ELSE bucket

\* one iteration of the loop of RefreshENIs
RefreshOne(bucket, id, ans, ok) ==
  IF ans.err # <<>> THEN handleENIError(bucket, id, ans.err, ok)
  ELSE IF ans.tag.ENI = "" THEN bucket
  ELSE UpsertEni(bucket, CacheTag(ans.tag), ok)

EniLists == UNION {[1..n -> EniIds] : n \in 0..MaxEnis}
Buckets == [EniIds -> {NoEntry} \cup {OldEntry(id) : id \in EniIds}]
NoStep == [eni |-> "", ans |-> [tag |-> EmptyAwsTag, err |-> <<>>], ok |-> TRUE]

InitRefresh ==
  /\ b = NewBuilder
  /\ st = "refresh"
  /\ ret = NoRet
  /\ nopts = 0
  /\ last = NoLast
  /\ hist = [failed |-> 0, ever |-> FALSE, fields |-> <<>>, raw |-> FALSE]
  /\ out = NoOut
  /\ ptext = <<>>
  /\ pwant = Nil
  /\ pres = NoParse
  /\ two = NoTwo
  /\ run = NoRun
  /\ ia = NoAnnotator
  /\ \E enis \in EniLists :
     \E bucket \in {f \in Buckets : \A id \in EniIds : f[id].ENI \in {"", id}} :
       cache = [pc |-> "loop", enis |-> enis, i |-> 1, bucket |-> bucket,
                before |-> bucket, last |-> NoStep, ret |-> "none"]

RefreshUnchanged ==
  UNCHANGED <<b, st, ret, nopts, last, hist, out, ptext, pwant, pres, two, run,
              ia>>

\* the body of the loop for enis[i]
RefreshNext ==
  /\ st = "refresh"
  /\ cache.pc = "loop"
  /\ cache.i <= Len(cache.enis)
  /\ \E ans \in ProviderAnswers : \E ok \in BOOLEAN :
       LET id == cache.enis[cache.i] IN
       cache' = [cache EXCEPT
                   !.i = @ + 1,
                   !.before = cache.bucket,
                   !.bucket = RefreshOne(cache.bucket, id, ans, ok),
                   !.last = [eni |-> id, ans |-> ans, ok |-> ok]]
  /\ RefreshUnchanged

\* the end of the list: return nil
RefreshReturn ==
  /\ st = "refresh"
  /\ cache.pc = "loop"
  /\ cache.i > Len(cache.enis)
  /\ cache' = [cache EXCEPT !.pc = "done", !.ret = "nil"]
  /\ RefreshUnchanged

NextRefresh == RefreshNext \/ RefreshReturn

SpecRefresh == InitRefresh /\ [][NextRefresh]_vars

(***************************************************************************)
(* Properties of RefreshENIs.                                              *)
(***************************************************************************)
Refreshing == st = "refresh"
StepTaken == Refreshing /\ cache.i > 1

\* the errors that report that the ENI does not exist: the EC2 error codes
\* and the error of EC2Client.GetENITag for an empty response
NotFoundErrors == {ErrApiNotFound, ErrInvalidID, ErrEmptyResponse}

\* what the specification asks of one ENI of the list
SpecRefreshOne(bucket, id, ans) ==
  IF ans.err = <<>> /\ ans.tag.ENI # ""
    THEN [bucket EXCEPT ![id] = CacheTag(ans.tag)]
  ELSE IF ans.err \in NotFoundErrors
    THEN [bucket EXCEPT ![id] = NoEntry]
  ELSE bucket

RefreshInOrder ==
  /\ StepTaken => cache.last.eni = cache.enis[cache.i - 1]
  /\ cache.pc = "done" =>
       /\ cache.ret = "nil"
       /\ cache.i = Len(cache.enis) + 1

\* C22: RefreshENIs processes every ENI of the list in order and returns
\* nil; for each ENI, a non-empty tag replaces its cache entry, a not-found
\* error deletes it, and any other failure or an empty tag leaves the cache
\* unchanged.
C22_RefreshENIs ==
  Refreshing =>
    /\ RefreshInOrder
    /\ StepTaken =>
         cache.bucket = SpecRefreshOne(cache.before, cache.last.eni,
                                       cache.last.ans)

\* the same when the bucket can be written, the provider's tag names the
\* ENI asked for and a not-found error carries the EC2 error code
C22_RefreshENIsWithEC2Codes ==
  Refreshing =>
    /\ RefreshInOrder
    /\ ( /\ StepTaken
         /\ cache.last.ok
         /\ cache.last.ans.tag.ENI \in {"", cache.last.eni}
         /\ cache.last.ans.err # ErrEmptyResponse ) =>
         cache.bucket = SpecRefreshOne(cache.before, cache.last.eni,
                                       cache.last.ans)

\* a failure on the first ENI is followed by the processing of the second
C22_ContinuesWitness ==
  /\ Refreshing
  /\ cache.pc = "done"
  /\ Len(cache.enis) = 2
  /\ cache.last.eni = "eni-2"
  /\ cache.last.ans.err = <<>>
  /\ cache.bucket["eni-2"] = CacheTag(AwsTag("eni-2"))
  /\ cache.bucket["eni-1"] = OldEntry("eni-1")

(***************************************************************************)
(* The parser on texts made of operands joined by " and " and " or ": the  *)
(* operands are clauses, clauses without a field or without an operator,   *)
(* blank and non-blank parentheses, and clauses whose quoted value holds   *)
(* the word and / or.                                                      *)
(***************************************************************************)
MaxOperands == 3

TextOperands ==
  { <<"a","=","1">>,
    <<"b"," ","!","="," ","2">>,
    <<"(",")">>,
    <<"("," "," ",")">>,
    <<"(","a","=","1",")">>,
    <<"(","a","=","1"," ","o","r"," ","b"," ","!","="," ","2",")">>,
    <<"=","1">>,
    <<"="," ","1">>,
    <<"a">>,
    <<"m"," ","="," ","'","x"," ","a","n","d"," ","y","'">>,
    <<"m"," ","="," ","'","x"," ","o","r"," ","y","'">>,
    <<"m"," ","="," ","'","x"," ","a","n","d"," ","y","=","1","'">>,
    <<"m"," ","="," ","\"","x"," ","o","r"," ","y","\"">>,
    <<"m"," ","="," ","'","x"," ","y","'">>,
    KelvinSign \o <<"a","b","c","d">> }

TextConnectives == { <<" ","a","n","d"," ">>, <<" ","o","r"," ">> }

RECURSIVE TextsOf(_)
\* the token sequences of n operands
TextsOf(n) ==
  IF n = 1 THEN {<<o>> : o \in TextOperands}
  ELSE {t \o <<c, o>> :
          t \in TextsOf(n - 1), c \in TextConnectives, o \in TextOperands}

\* the texts of at most k operands
TextCases(k) == UNION {TextsOf(n) : n \in 1..k}

InitText ==
  /\ b = NewBuilder
  /\ st = "parsing"
  /\ ret = NoRet
  /\ nopts = 0
  /\ last = NoLast
  /\ hist = [failed |-> 0, ever |-> FALSE, fields |-> <<>>, raw |-> FALSE]
  /\ out = NoOut
  /\ ptext \in TextCases(MaxOperands)
  /\ pwant = Nil
  /\ pres = NoParse
  /\ two = NoTwo
  /\ run = NoRun
  /\ cache = NoCache
  /\ ia = NoAnnotator

SpecText == InitText /\ [][NextParse]_vars

(***************************************************************************)
(* Properties of the trees returned for these texts.                       *)
(***************************************************************************)
TextParsed == st = "parsed" /\ ~pres.panic /\ pres.err = NoErr

\* the operands of the text
TextOperandsOf(toks) == {toks[i] : i \in {j \in 1..Len(toks) : j % 2 = 1}}

RECURSIVE WrappersWellFormed(_)
\* every And and Or below e has at least two children, none of them nil
WrappersWellFormed(e) ==
  IF e.t \in {"And", "Or"}
    THEN /\ Len(e.subs) >= 2
         /\ \A i \in 1..Len(e.subs) :
              e.subs[i] # Nil /\ WrappersWellFormed(e.subs[i])
  ELSE IF e.t = "Not" THEN WrappersWellFormed(e.sub)
  ELSE TRUE

\* C23: every And node and every Or node of a tree returned by ParseFilter
\* or ParseFilterWithSchema has at least two children, each a non-nil
\* expression.
C23_WrapperChildren == TextParsed => WrappersWellFormed(pres.expr)

BlankParens == { <<"(",")">>, <<"("," "," ",")">> }

\* the same for the texts none of whose operands is a blank parenthesis
C23_WrapperChildrenNoBlankParens ==
  (TextParsed /\ TextOperandsOf(ptext) \cap BlankParens = {}) =>
    WrappersWellFormed(pres.expr)

\* the operands whose value is quoted, and the text between the quotes
IsQuote(c) == c = "'" \/ c = "\""
QuotedOperands == {o \in TextOperands : IsQuote(o[Len(o)])}
QuotedValue(o) ==
  LET i == CHOOSE k \in 1..Len(o) :
             IsQuote(o[k]) /\ \A j \in 1..(k - 1) : ~IsQuote(o[j])
  IN SubSeq(o, i + 1, Len(o) - 1)

HasLogicalWord(v) ==
  Contains(v, <<" ","a","n","d"," ">>) \/ Contains(v, <<" ","o","r"," ">>)

\* C25: the words and / or inside a quoted value do not split the
\* expression: field = 'x and y' parses to one comparison whose value is the
\* whole quoted text.
C25_QuotedValues ==
  (st = "parsed" /\ Len(ptext) = 1 /\ ptext[1] \in QuotedOperands) =>
    pres = Ok(Leaf("Eq", <<"m">>, StrV(QuotedValue(ptext[1]))))

\* the same for a quoted value that holds neither word
C25_QuotedValuesWithoutLogicalWords ==
  ( /\ st = "parsed"
    /\ Len(ptext) = 1
    /\ ptext[1] \in QuotedOperands
    /\ ~HasLogicalWord(QuotedValue(ptext[1])) ) =>
    pres = Ok(Leaf("Eq", <<"m">>, StrV(QuotedValue(ptext[1]))))

\* a quoted value with a word is split, and the pieces can parse: a tree of
\* two comparisons is returned for one clause
C25_SilentSplit ==
  ~ ( /\ TextParsed
      /\ ptext = << <<"m"," ","="," ","'","x"," ","a","n","d"," ","y","=","1","'">> >>
      /\ pres.expr.t = "And" )

\* C26: every leaf of a tree returned by ParseFilter or
\* ParseFilterWithSchema has a non-empty Field.
C26_LeafFieldNonEmpty == TextParsed => "" \notin ExprFields(pres.expr)

FieldlessOperands == { <<"=","1">>, <<"="," ","1">> }

\* the same for the texts none of whose operands starts with its operator
C26_LeafFieldNonEmptyWithField ==
  (TextParsed /\ TextOperandsOf(ptext) \cap FieldlessOperands = {}) =>
    "" \notin ExprFields(pres.expr)

(***************************************************************************)
(* parseClauseWithSchema on clauses field ++ operator text ++ value, for   *)
(* every operator of the list, spaced and (the symbolic ones) bare.        *)
(***************************************************************************)
\* the last three are not ASCII: U+00C0 (its lower case U+00E0 has as many
\* bytes), U+212A (three bytes, lower case k) and the byte ff, which starts
\* no rune (lower-cased to the three bytes of U+FFFD)
OperatorFields ==
  { <<"a">>, <<"M","s","g">>, Chars("bytes"), EncodeRune(192), KelvinSign,
    CapitalAStroke, <<"\\xff">> }

SpacedOperatorTexts ==
  { <<" ","!","="," ">>,
    <<" ","n","o","t"," ","l","i","k","e"," ">>,
    <<" ",">","="," ">>,
    <<" ","<","="," ">>,
    <<" ",">"," ">>,
    <<" ","<"," ">>,
    <<" ","="," ">>,
    <<" ","l","i","k","e"," ">>,
    <<" ","L","I","K","E"," ">>,
    <<" ","N","o","t"," ","L","i","k","e"," ">> }
BareOperatorTexts ==
  { <<"!","=">>, <<">","=">>, <<"<","=">>, <<">">>, <<"<">>, <<"=">> }
OperatorValues ==
  { <<"1">>,
    <<"x">>,
    <<"'","x"," ","y","'">>,
    <<"\"","x","\"">>,
    <<"X","-","1">> }

OperatorCases ==
  OperatorFields \X (SpacedOperatorTexts \cup BareOperatorTexts)
    \X OperatorValues

InitOperator ==
  /\ b = NewBuilder
  /\ st = "operator"
  /\ ret = NoRet
  /\ nopts = 0
  /\ last = NoLast
  /\ hist = [failed |-> 0, ever |-> FALSE, fields |-> <<>>, raw |-> FALSE]
  /\ out = NoOut
  /\ ptext \in OperatorCases
  /\ pwant = Nil
  /\ pres = NoParse
  /\ two = NoTwo
  /\ run = NoRun
  /\ cache = NoCache
  /\ ia = NoAnnotator

\* parseClauseWithSchema(clause, schema): found is op, field and value as
\* they stand once the quotes are removed (filter_lexer.go:468)
DoParseClause ==
  /\ st = "operator"
  /\ \E schema \in BOOLEAN :
       LET clause == Flatten(ptext)
           f == FindOperator(clause)
       IN /\ pres' = parseClauseWithSchema(clause, schema)
          /\ last' = [op |-> "parseClauseWithSchema", args |-> ptext,
                      err |-> parseClauseWithSchema(clause, schema).err,
                      found |-> [op |-> f.op, field |-> f.field,
                                 value |-> Trim(f.value, {"'", "\""})]]
  /\ st' = "operatorFound"
  /\ UNCHANGED <<cache, ia, two, run, b, ret, nopts, hist, out, ptext, pwant>>

NextOperator == DoParseClause

SpecOperator == InitOperator /\ [][NextOperator]_vars

(***************************************************************************)
(* Properties of the operator search.                                      *)
(***************************************************************************)
OperatorFound == st = "operatorFound"

\* the operator a text stands for, and the node type of an operator
SpecOperatorOf(text) == ToLower(TrimSpace(text))

SpecNodeType(op) ==
  CASE op = <<"=">> -> "Eq"
    [] op = <<"!","=">> -> "Neq"
    [] op = <<">">> -> "Gt"
    [] op = <<"<">> -> "Lt"
    [] op = <<">","=">> -> "Gte"
    [] op = <<"<","=">> -> "Lte"
    [] op = <<"l","i","k","e">> -> "Like"
    [] OTHER -> "NotLike"

SpecUnquoted(v) ==
  IF Len(v) >= 2 /\ IsQuote(v[1]) THEN SubSeq(v, 2, Len(v) - 1) ELSE v

\* the clause is read as the field f, the operator of the text optext and
\* the value v without its quotes, and a node that is returned carries them
OperatorFoundAs(f, optext, v) ==
    /\ ~pres.panic
    /\ last.found = [op |-> SpecOperatorOf(optext), field |-> f,
                     value |-> SpecUnquoted(v)]
    /\ (pres.err = NoErr /\ ~pres.panic) =>
         /\ pres.expr.t = SpecNodeType(SpecOperatorOf(optext))
         /\ pres.expr.Field = f
         /\ pres.expr.Value =
              IF f = Chars("bytes")
                 /\ SpecOperatorOf(optext) \notin {opLike, opNotLike}
                THEN IntV(1)
              ELSE StrV(SpecUnquoted(v))
    /\ pres.err # NoErr => pres.err.kind # "invalid filter clause"

\* C24: for every operator of the list and every field and value without
\* operator text, the clauses 'f OP v' and (for the symbolic operators)
\* 'fOPv' are read as exactly (f, OP, v): the field is the text before the
\* operator, the value the text after it with its quotes removed, and a node
\* that is returned carries this field, operator and value.
C24_OperatorFound ==
  OperatorFound => OperatorFoundAs(ptext[1], ptext[2], ptext[3])

\* C24 for the clauses whose lower case has as many bytes as the clause
C24_OperatorFoundSameLength ==
  (OperatorFound /\ Len(ToLower(Flatten(ptext))) = Len(Flatten(ptext))) =>
    OperatorFoundAs(ptext[1], ptext[2], ptext[3])

\* '<U+212A> = 1' is read as the field e2 (the first byte of the rune) and
\* the value '= 1'
C24_ShorterLowerCase ==
  ~ ( /\ OperatorFound
      /\ ptext = <<KelvinSign, <<" ","="," ">>, <<"1">>>>
      /\ pres = Ok(Leaf("Eq", <<"\\xe2">>, StrV(<<"=", " ", "1">>))) )

\* '<U+023A> = 1', whose lower case U+2C65 has one more byte, is read with
\* the value cut short: the field U+023A and the empty value
C24_LongerLowerCaseValue ==
  ~ ( /\ OperatorFound
      /\ ptext = <<CapitalAStroke, <<" ","="," ">>, <<"1">>>>
      /\ pres = Ok(Leaf("Eq", CapitalAStroke, StrV(<<>>))) )

\* '<ff> = 1' panics: the operator is found at index 3 of the lower case,
\* and the value would start at index 6 of a clause of 5 bytes
C24_LongerLowerCase ==
  ~ ( /\ OperatorFound
      /\ ptext = << <<"\\xff">>, <<" ","="," ">>, <<"1">>>>
      /\ pres.panic )

\* the bare text >= is read as the operator >=, not as > or =
C24_Witness ==
  /\ OperatorFound
  /\ ptext = <<Chars("bytes"), <<">","=">>, <<"1">>>>
  /\ pres = Ok(Leaf("Gte", Chars("bytes"), IntV(1)))

C24_SpacedWitness ==
  /\ OperatorFound
  /\ ptext[2] = <<" ","N","o","t"," ","L","i","k","e"," ">>
  /\ pres = Ok(Leaf("NotLike", <<"M","s","g">>, StrV(<<"x"," ","y">>)))

(***************************************************************************)
(* Fields held by the Builder and its version.                             *)
(***************************************************************************)
SeqSet(s) == {s[i] : i \in 1..Len(s)}

\* every field the Builder holds
HeldFields(bb) ==
  {bb.aggregations[i].Field : i \in 1..Len(bb.aggregations)}
    \cup SeqSet(bb.groupBy) \cup SeqSet(bb.fields) \cup SeqSet(bb.pendingFields)
    \cup UNION {ExprFields(bb.filters[i]) : i \in 1..Len(bb.filters)}

FieldsValid(bb) == \A f \in HeldFields(bb) : ValidateField(f, bb.version) = NoErr

\* C27: after any sequence of successfully applied options every field the
\* Builder holds is valid for the Builder's version, wherever WithVersion
\* appears in the sequence.
C27_FieldsValidForVersion ==
  st \in {"applying", "returned", "rendered"} => FieldsValid(b)

\* an option that leaves the version as it is keeps the held fields valid
C27_ValidUnlessVersionChanges ==
  [][(st = "applying" /\ b'.version = b.version /\ FieldsValid(b))
       => FieldsValid(b')]_vars

(***************************************************************************)
(* Parsing and building composed, as buildCommandOptions does: the text is *)
(* parsed by ParseFilterWithSchema with the schema and the expression is   *)
(* given to WithFilter on a Builder of version v.  Each case is a text     *)
(* with the field names written in it.                                     *)
(***************************************************************************)
ComposeCases ==
  { [text |->
       <<"d","u","r","a","t","i","o","n"," ",">"," ","5">>,
     fields |-> {"duration"}],
    [text |->
       <<"d","u","r","a","t","i","o","n"," ","="," ","1","0","0","0">>,
     fields |-> {"duration"}],
    [text |->
       <<"(","d","u","r","a","t","i","o","n"," ","<","="," ","5",")">>,
     fields |-> {"duration"}],
    [text |->
       <<"s","r","c","a","d","d","r"," ","="," ","1","0",".","0",".","0",".","1">>,
     fields |-> {"srcaddr"}],
    [text |->
       <<"s","r","c","a","d","d","r"," ","="," ","1","0",".","0",".","0",".","0","/","8">>,
     fields |-> {"srcaddr"}],
    [text |->
       <<"d","s","t","p","o","r","t"," ","="," ","4","4","3">>,
     fields |-> {"dstport"}],
    [text |->
       <<"p","r","o","t","o","c","o","l"," ","="," ","t","c","p">>,
     fields |-> {"protocol"}],
    [text |->
       <<"a","c","t","i","o","n"," ","="," ","A","C","C","E","P","T">>,
     fields |-> {"action"}],
    [text |->
       <<"b","y","t","e","s"," ",">","="," ","1","0","0">>,
     fields |-> {"bytes"}],
    [text |->
       <<"v","p","c","_","i","d"," ","="," ","v","-","1">>,
     fields |-> {"vpc_id"}],
    [text |->
       <<"v","p","c","_","i","d"," ","l","i","k","e"," ","v"," ","a","n","d"," ","b","y","t","e","s"," ",">"," ","5">>,
     fields |-> {"vpc_id", "bytes"}],
    [text |->
       <<"a","c","t","i","o","n"," ","!","="," ","R","E","J","E","C","T"," ","o","r"," ","d","s","t","p","o","r","t"," ","<"," ","1","0","2","4">>,
     fields |-> {"action", "dstport"}],
    [text |->
       <<"b","y","t","e","s"," ",">"," ","5"," ","a","n","d"," ","d","u","r","a","t","i","o","n"," ",">","="," ","1">>,
     fields |-> {"bytes", "duration"}],
    [text |->
       <<"s","r","c","a","d","d","r"," ","="," ","1","0",".","0",".","0",".","1"," ","a","n","d"," ","(","d","s","t","p","o","r","t"," ","="," ","8","0"," ","o","r"," ","d","s","t","p","o","r","t"," ","="," ","4","4","3",")">>,
     fields |-> {"srcaddr", "dstport"}],
    [text |->
       <<"b","o","g","u","s"," ","="," ","1">>,
     fields |-> {"bogus"}],
    [text |->
       <<" "," ">>,
     fields |-> {}] }

ComposeVersions == {2, 3, 5}

InitCompose ==
  /\ \E v \in ComposeVersions : b = [NewBuilder EXCEPT !.version = v]
  /\ st = "composing"
  /\ ret = NoRet
  /\ nopts = 0
  /\ last = NoLast
  /\ hist = [failed |-> 0, ever |-> FALSE, fields |-> <<>>, raw |-> FALSE]
  /\ out = NoOut
  /\ \E c \in ComposeCases : ptext = c
  /\ pwant = Nil
  /\ pres = NoParse
  /\ two = NoTwo
  /\ run = NoRun
  /\ cache = NoCache
  /\ ia = NoAnnotator

\* querybuilder.ParseFilterWithSchema(cmdFlags.Filter, schema)
ComposeParse ==
  /\ st = "composing"
  /\ pres' = ParseFilterWithSchema(ptext.text, TRUE)
  /\ st' = "composed"
  /\ UNCHANGED <<cache, ia, two, run, b, ret, nopts, last, hist, out, ptext, pwant>>

\* WithFilter(filterExpr) applied to the Builder, when the parse gave no error
ComposeWithFilter ==
  /\ st = "composed"
  /\ pres.err = NoErr
  /\ ~pres.panic
  /\ b' = WithFilter(b, pres.expr).b
  /\ last' = [op |-> "WithFilter", args |-> pres.expr,
              err |-> WithFilter(b, pres.expr).err]
  /\ st' = "filtered"
  /\ UNCHANGED <<cache, ia, two, run, ret, nopts, hist, out, ptext, pwant, pres>>

NextCompose == ComposeParse \/ ComposeWithFilter

SpecCompose == InitCompose /\ [][NextCompose]_vars

(***************************************************************************)
(* Properties of the composition.                                          *)
(***************************************************************************)
TextFieldsValid ==
  \A f \in ptext.fields : ValidateField(f, b.version) = NoErr

\* C28: every expression ParseFilterWithSchema returns for a text whose
\* field names are all valid for version v is accepted by WithFilter on a
\* Builder of version v, a filter on the computed field duration included.
C28_ParseThenFilter ==
  (st = "filtered" /\ TextFieldsValid) => last.err = NoErr

\* the same for the texts that do not name duration
C28_ParseThenFilterWithoutDuration ==
  (st = "filtered" /\ TextFieldsValid /\ "duration" \notin ptext.fields) =>
    last.err = NoErr

\* a text naming vpc_id and bytes is parsed and accepted at version 5
C28_AcceptedWitness ==
  /\ st = "filtered"
  /\ ptext.fields = {"vpc_id", "bytes"}
  /\ b.version = 5
  /\ last.err = NoErr
  /\ Len(b.filters) = 1

(***************************************************************************)
(* Rendering of registered filters: New applies WithFilter to expression   *)
(* trees built from pointer nodes (the ones ValidateFilter accepts) and    *)
(* the Builder is rendered.                                                *)
(***************************************************************************)
MaxFilters == 2

RenderLeaves ==
  { Leaf("Eq", Chars("srcaddr"), StrV(<<"x">>)),
    Leaf("Gt", Chars("bytes"), IntV(5)) }

RECURSIVE RenderTrees(_)
\* the trees of And, Or and NotExpr pointers of depth at most d
RenderTrees(d) ==
  IF d = 0 THEN RenderLeaves
  ELSE LET sub == RenderTrees(d - 1)
           lists == UNION {[1..k -> sub] : k \in 1..MaxKids}
       IN sub \cup {AndP(l) : l \in lists} \cup {OrP(l) : l \in lists}
              \cup {NotP(e) : e \in sub}

\* the first filter is any tree, a further one a tree of depth at most 1
FilterChoices(n) == IF n = 0 THEN RenderTrees(MaxDepth) ELSE RenderTrees(1)

InitRender ==
  /\ b = NewBuilder
  /\ st = "applying"
  /\ ret = NoRet
  /\ nopts = 0
  /\ last = NoLast
  /\ hist = [failed |-> 0, ever |-> FALSE, fields |-> <<>>, raw |-> FALSE]
  /\ out = NoOut
  /\ ptext = <<>>
  /\ pwant = Nil
  /\ pres = NoParse
  /\ two = NoTwo
  /\ run = NoRun
  /\ cache = NoCache
  /\ ia = NoAnnotator

\* New applies WithFilter(e)
RenderWithFilter ==
  /\ Len(b.filters) < MaxFilters
  /\ \E e \in FilterChoices(Len(b.filters)) :
       Apply("WithFilter", e, WithFilter(b, e))

NextRender == RenderWithFilter \/ NewReturn \/ Render

SpecRender == InitRender /\ [][NextRender]_vars

(***************************************************************************)
(* Properties of the rendering.                                            *)
(***************************************************************************)
RECURSIVE SpecString(_, _)
\* the text the specification asks for e as a child of a parent node: an Or
\* in parentheses, an And of several operands in parentheses under a Not
SpecString(e, parent) ==
  IF e.t = "And"
    THEN LET s == JoinStr([i \in 1..Len(e.subs) |->
                             SpecString(e.subs[i], "And")], " and ")
         IN IF parent = "Not" /\ Len(e.subs) >= 2 THEN "(" \o s \o ")" ELSE s
  ELSE IF e.t = "Or"
    THEN "(" \o JoinStr([i \in 1..Len(e.subs) |->
                           SpecString(e.subs[i], "Or")], " or ") \o ")"
  ELSE IF e.t = "Not" THEN "not " \o SpecString(e.sub, "Not")
  ELSE LeafString(e)

RECURSIVE NotOverAnd(_)
\* e has a Not whose child is an And of several operands
NotOverAnd(e) ==
  IF e.t \in {"And", "Or"} THEN \E i \in 1..Len(e.subs) : NotOverAnd(e.subs[i])
  ELSE IF e.t = "Not"
    THEN (e.sub.t = "And" /\ Len(e.sub.subs) >= 2) \/ NotOverAnd(e.sub)
  ELSE FALSE

FilterRendered ==
  st = "rendered" /\ ~out.panic /\ Len(b.filters) > 0 /\ Len(out.parts) >= 2

\* C29: in the rendered filter each Or under an And or a Not, and each And
\* under a Not, stands in its own parentheses, so that the text read with
\* the precedence NOT over AND over OR groups as the trees do, the implicit
\* AND of the registered filters included.
C29_RenderingGroups ==
  FilterRendered =>
    out.parts[2] = <<"filter ", SpecString(AndVal(b.filters), "top")>>

\* the same for the filters without an And of several operands under a Not
C29_RenderingGroupsUnlessNotOverAnd ==
  (FilterRendered /\ \A i \in 1..Len(b.filters) : ~NotOverAnd(b.filters[i])) =>
    out.parts[2] = <<"filter ", SpecString(AndVal(b.filters), "top")>>

\* not (a and b) is rendered with the text of (not a) and b
C29_SameTextAsOtherTree ==
  ~ ( /\ FilterRendered
      /\ \E x \in RenderLeaves : \E y \in RenderLeaves :
           /\ x # y
           /\ b.filters = <<NotP(AndP(<<x, y>>))>>
           /\ out.parts[2] =
                <<"filter ", ExprString(AndP(<<NotP(x), y>>))>> )

\* an Or under an And and two registered filters, rendered as asked
C29_OrUnderAndWitness ==
  /\ FilterRendered
  /\ Len(b.filters) = 2
  /\ b.filters[1].t = "And"
  /\ \E i \in 1..Len(b.filters[1].subs) : b.filters[1].subs[i].t = "Or"
  /\ b.filters[2].t = "Or"
  /\ out.parts[2] = <<"filter ", SpecString(AndVal(b.filters), "top")>>

(***************************************************************************)
(* IPAnnotator: a trie over the bytes of the prefix addresses and the map  *)
(* of the entries.  A PrefixTag is identified by its CIDR text, a node by  *)
(* the bytes on its path from the root.                                    *)
(***************************************************************************)
MaxCalls == 3

Cidrs ==
  { <<"0",".","0",".","0",".","0","/","0">>,
    <<"1","2","8",".","0",".","0",".","0","/","1">>,
    <<"1","0",".","0",".","0",".","0","/","8">>,
    <<"1","0",".","1",".","0",".","0","/","1","6">>,
    <<"1","0",".","1",".","2",".","0","/","2","4">>,
    <<"1","0",".","1",".","0",".","0">>,
    <<"1","0",".","1",".","0",".","0","/","3","3">> }

LookupAddrs ==
  { <<0, 0, 0, 0>>, <<10, 1, 2, 3>>, <<10, 9, 9, 9>>,
    <<128, 0, 0, 0>>, <<192, 168, 0, 1>> }

\* netip.ParsePrefix(cidr).Addr().AsSlice()
PrefixBytes(cidr) == ParsePrefix(cidr).bytes

\* netip.ParsePrefix(cidr).Bits()
PrefixBits(cidr) == ParsePrefix(cidr).bits

NoLookup == [addr |-> <<>>, res |-> Nil]

\* NewIPAnnotator
NewIPAnnotator ==
  [pc |-> "ready", nodes |-> <<>>, entries |-> {}, ever |-> {},
   calls |-> 0, err |-> FALSE, lookup |-> NoLookup]

\* the annotator after Insert(&PrefixTag{CIDR: cidr}) of a CIDR that parses
InsertPrefix(a, cidr) ==
  LET bytes == PrefixBytes(cidr)
      bits == PrefixBits(cidr)
      path == {SubSeq(bytes, 1, k) : k \in 1..Len(bytes)}
  IN [a EXCEPT
        !.entries = @ \cup {cidr},
        !.nodes = [p \in (DOMAIN a.nodes) \cup path |->
                     IF p \in path /\ Len(p) - 1 >= bits - 1 THEN cidr
                     ELSE IF p \in DOMAIN a.nodes THEN a.nodes[p]
                     ELSE Nil]]

RECURSIVE LookupFrom(_, _, _, _)
\* the loop of Lookup from byte k on, with the best match so far
LookupFrom(a, bytes, k, bestMatch) ==
  IF k > Len(bytes) THEN bestMatch
  ELSE LET p == SubSeq(bytes, 1, k) IN
       IF p \notin DOMAIN a.nodes THEN bestMatch
       ELSE LookupFrom(a, bytes, k + 1,
                       IF a.nodes[p] # Nil THEN a.nodes[p] ELSE bestMatch)

Lookup(a, addr) == LookupFrom(a, addr, 1, Nil)

InitAnnotator ==
  /\ b = NewBuilder
  /\ st = "annotating"
  /\ ret = NoRet
  /\ nopts = 0
  /\ last = NoLast
  /\ hist = [failed |-> 0, ever |-> FALSE, fields |-> <<>>, raw |-> FALSE]
  /\ out = NoOut
  /\ ptext = <<>>
  /\ pwant = Nil
  /\ pres = NoParse
  /\ two = NoTwo
  /\ run = NoRun
  /\ cache = NoCache
  /\ ia = NewIPAnnotator

AnnotatorUnchanged ==
  UNCHANGED <<b, st, ret, nopts, last, hist, out, ptext, pwant, pres, two,
              run, cache>>

\* ia.Insert(&PrefixTag{CIDR: cidr})
Insert ==
  /\ st = "annotating"
  /\ ia.calls < MaxCalls
  /\ \E cidr \in Cidrs :
       ia' = IF ~ParsePrefixOk(cidr)
               THEN [ia EXCEPT !.calls = @ + 1, !.err = TRUE,
                               !.lookup = NoLookup]
             ELSE [InsertPrefix(ia, cidr) EXCEPT
                     !.calls = @ + 1, !.err = FALSE, !.lookup = NoLookup,
                     !.ever = @ \cup {cidr}]
  /\ AnnotatorUnchanged

\* ia.Remove(cidr)
Remove ==
  /\ st = "annotating"
  /\ ia.calls < MaxCalls
  /\ \E cidr \in Cidrs :
       ia' = [ia EXCEPT !.entries = @ \ {cidr}, !.calls = @ + 1,
                        !.err = FALSE, !.lookup = NoLookup]
  /\ AnnotatorUnchanged

\* ia.Lookup(addr)
DoLookup ==
  /\ st = "annotating"
  /\ \E addr \in LookupAddrs :
       ia' = [ia EXCEPT !.lookup = [addr |-> addr, res |-> Lookup(ia, addr)]]
  /\ AnnotatorUnchanged

NextAnnotator == Insert \/ Remove \/ DoLookup

SpecAnnotator == InitAnnotator /\ [][NextAnnotator]_vars

(***************************************************************************)
(* Properties of the annotator.                                            *)
(***************************************************************************)
Pow2(n) == IF n = 0 THEN 1 ELSE IF n = 1 THEN 2 ELSE IF n = 2 THEN 4
           ELSE IF n = 3 THEN 8 ELSE IF n = 4 THEN 16 ELSE IF n = 5 THEN 32
           ELSE IF n = 6 THEN 64 ELSE IF n = 7 THEN 128 ELSE 256

\* the number of leading bits of byte k (from 1) that a length covers
BitsInByte(bits, k) ==
  LET r == bits - 8 * (k - 1) IN IF r < 0 THEN 0 ELSE IF r > 8 THEN 8 ELSE r

\* the prefix contains the address: they agree on the leading bits
PrefixContains(cidr, addr) ==
  \A k \in 1..4 :
    LET d == Pow2(8 - BitsInByte(PrefixBits(cidr), k))
    IN PrefixBytes(cidr)[k] \div d = addr[k] \div d

LiveMatches(addr) == {c \in ia.entries : PrefixContains(c, addr)}

LookedUp == st = "annotating" /\ ia.lookup # NoLookup

\* C30: after any sequence of Insert and Remove calls Lookup(addr) returns
\* the longest of the prefixes that contain addr and were inserted and not
\* removed since, and nil when there is none.
C30_LongestLivePrefix ==
  LookedUp =>
    IF LiveMatches(ia.lookup.addr) = {} THEN ia.lookup.res = Nil
    ELSE /\ ia.lookup.res # Nil
         /\ ia.lookup.res \in LiveMatches(ia.lookup.addr)
         /\ \A c \in LiveMatches(ia.lookup.addr) :
              PrefixBits(c) <= PrefixBits(ia.lookup.res)

\* what Lookup returns is nil or a prefix inserted at some time (removed
\* since or not) that contains the address
C30_InsertedOnceAndContains ==
  (LookedUp /\ ia.lookup.res # Nil) =>
    /\ ia.lookup.res \in ia.ever
    /\ PrefixContains(ia.lookup.res, ia.lookup.addr)

\* a live prefix of length 8 contains the address and Lookup returns nil
C30_MissedPrefix ==
  ~ ( /\ LookedUp
      /\ ia.lookup.res = Nil
      /\ \E c \in LiveMatches(ia.lookup.addr) : PrefixBits(c) = 8 )

\* Lookup returns a prefix that was removed
C30_RemovedPrefixReturned ==
  ~ ( /\ LookedUp
      /\ ia.lookup.res # Nil
      /\ ia.lookup.res \notin ia.entries )

\* Lookup returns the one live prefix that contains the address
C30_FoundWitness ==
  /\ LookedUp
  /\ ia.lookup.res # Nil
  /\ LiveMatches(ia.lookup.addr) = {ia.lookup.res}

=============================================================================
